---- MODULE Spec2Model ----
(***************************************************************************)
(* Model of notification-osd.c (mpv notification OSD): the event loop of   *)
(* mpv_open_cplugin, the handlers it dispatches to, the accumulated        *)
(* done_actions and their resolution in done(), the expire timer, the      *)
(* screenshot round trip and the thumbnail context.                        *)
(*                                                                         *)
(* Every C function that changes state is an operator from a record of the *)
(* program's globals to the record after the call; the results of calls    *)
(* into libnotify, libswscale and libmpv that the program cannot decide    *)
(* are parameters the actions draw with \E.                                *)
(***************************************************************************)
EXTENDS Integers, Sequences, FiniteSets, TLC

(***************************************************************************)
(* Bounds of the model.                                                    *)
(***************************************************************************)
\* asynchronous screenshot commands mpv may hold unanswered at one time
MaxPending == 2

(***************************************************************************)
(* enum done_action                                                        *)
(***************************************************************************)
A_NTF_RST == "A_NTF_RST"
A_NTF_UPD == "A_NTF_UPD"
A_NTF_CLOSE == "A_NTF_CLOSE"
A_QUEUE_SHOT == "A_QUEUE_SHOT"
A_FORCED_QUEUE_SHOT == "A_FORCED_QUEUE_SHOT"
A_NTF_CHECK_IMAGE == "A_NTF_CHECK_IMAGE"

done_action ==
    {A_NTF_RST, A_NTF_UPD, A_NTF_CLOSE, A_QUEUE_SHOT, A_FORCED_QUEUE_SHOT,
     A_NTF_CHECK_IMAGE}

\* MPV_FORMAT_NONE: the value of a property that is unavailable
NONE == "MPV_FORMAT_NONE"

(***************************************************************************)
(* The options the modelled code reads, with opts_defaults.                *)
(***************************************************************************)
O_EXPIRE_TIMEOUT == "expire_timeout"
O_SEND_THUMBNAIL == "send_thumbnail"
O_THUMBNAIL_SIZE == "thumbnail_size"
O_DISABLE_SCALING == "disable_scaling"
O_FOCUS_MANUAL == "focus_manual"
O_THUMBNAIL_SCALING == "thumbnail_scaling"
O_PERFDATA == "perfdata"

opts_key ==
    {O_EXPIRE_TIMEOUT, O_SEND_THUMBNAIL, O_THUMBNAIL_SIZE,
     O_THUMBNAIL_SCALING, O_DISABLE_SCALING, O_FOCUS_MANUAL, O_PERFDATA}

\* the slots whose value only opts_run_changed looks at
O_NTF_APP_ICON == "ntf_app_icon"
O_NTF_CATEGORY == "ntf_category"
O_NTF_URGENCY == "ntf_urgency"
O_SEND_PROGRESS == "send_progress"
O_SEND_SUB_TEXT == "send_sub_text"
O_SCREENSHOT_FLAGS == "screenshot_flags"

\* enum opts_key, in its order
opts_slots ==
    <<O_EXPIRE_TIMEOUT, O_NTF_APP_ICON, O_NTF_CATEGORY, O_NTF_URGENCY,
      O_SEND_THUMBNAIL, O_SEND_PROGRESS, O_SEND_SUB_TEXT, O_THUMBNAIL_SIZE,
      O_SCREENSHOT_FLAGS, O_THUMBNAIL_SCALING, O_DISABLE_SCALING,
      O_FOCUS_MANUAL, O_PERFDATA>>

O_END == {opts_slots[n] : n \in DOMAIN opts_slots}

\* the slots of format MPV_FORMAT_STRING
opts_strings == {O_NTF_APP_ICON, O_NTF_CATEGORY, O_SCREENSHOT_FLAGS}

\* the null pointer a string slot holds after a failed strdup
NULL == "(null)"

DefaultExpireTimeout == 10
DefaultThumbnailSize == 64

\* the libswscale algorithm flags thumbnail_scaling selects
SWS_FAST_BILINEAR == 1
SWS_BILINEAR == 2
SWS_BICUBIC == 4
SWS_LANCZOS == 512

opts_defaults ==
    [k \in opts_key |->
        CASE k = O_EXPIRE_TIMEOUT -> DefaultExpireTimeout
          [] k = O_SEND_THUMBNAIL -> TRUE
          [] k = O_THUMBNAIL_SIZE -> DefaultThumbnailSize
          [] k = O_THUMBNAIL_SCALING -> SWS_BICUBIC
          [] k = O_DISABLE_SCALING -> FALSE
          [] k = O_FOCUS_MANUAL -> FALSE
          [] k = O_PERFDATA -> FALSE]

\* D-Bus spec maximum message length is 128 MiB
MAX_IMAGE_SIZE == 127 * 1024 * 1024

(***************************************************************************)
(* observed_props[]: the rows whose value or trigger mask the modelled     *)
(* code reads.  action: the mask or'ed into done_actions on a change;      *)
(* action_if_true: only when the new value is true.                        *)
(***************************************************************************)
P_BRIGHTNESS == "brightness"
P_CURRENT_TRACKS__VIDEO__IMAGE == "current-tracks/video/image"
P_EOF_REACHED == "eof-reached"
P_FOCUSED == "focused"
P_IDLE_ACTIVE == "idle-active"
P_LAVFI_COMPLEX == "lavfi-complex"
P_MEDIA_TITLE == "media-title"
P_METADATA == "metadata"
P_MOUSE_POS == "mouse-pos"
P_OPTIONS_SCRIPT_OPTS == "options/script-opts"
P_PAUSE == "pause"
P_PERCENT_POS == "percent-pos"
P_TIME_POS == "time-pos"
P_USER_DATA__DETECT_IMAGE__DETECTED == "user-data/detect-image/detected"
P_VID == "vid"
P_VOLUME == "volume"

Prop(action, action_if_true, part_of_summary, part_of_body) ==
    [action |-> action, action_if_true |-> action_if_true,
     part_of_summary |-> part_of_summary, part_of_body |-> part_of_body]

observed_props ==
    [p \in {P_BRIGHTNESS, P_CURRENT_TRACKS__VIDEO__IMAGE, P_EOF_REACHED,
            P_FOCUSED, P_IDLE_ACTIVE, P_LAVFI_COMPLEX, P_MEDIA_TITLE,
            P_METADATA, P_MOUSE_POS, P_OPTIONS_SCRIPT_OPTS, P_PAUSE,
            P_PERCENT_POS, P_TIME_POS, P_USER_DATA__DETECT_IMAGE__DETECTED,
            P_VID, P_VOLUME} |->
        CASE p = P_BRIGHTNESS -> Prop({A_QUEUE_SHOT}, FALSE, FALSE, FALSE)
          [] p = P_CURRENT_TRACKS__VIDEO__IMAGE ->
                Prop({}, FALSE, FALSE, FALSE)
          [] p = P_EOF_REACHED -> Prop({A_NTF_RST}, TRUE, FALSE, TRUE)
          [] p = P_FOCUSED -> Prop({A_NTF_CLOSE}, TRUE, FALSE, FALSE)
          [] p = P_IDLE_ACTIVE ->
                Prop({A_NTF_UPD, A_NTF_CHECK_IMAGE}, FALSE, FALSE, FALSE)
          [] p = P_LAVFI_COMPLEX ->
                Prop({A_NTF_UPD, A_NTF_CHECK_IMAGE}, FALSE, FALSE, FALSE)
          [] p = P_MEDIA_TITLE -> Prop({A_NTF_UPD}, FALSE, TRUE, FALSE)
          [] p = P_METADATA ->
                Prop({A_NTF_RST, A_NTF_CHECK_IMAGE}, FALSE, TRUE, TRUE)
          [] p = P_MOUSE_POS -> Prop({}, FALSE, FALSE, FALSE)
          [] p = P_OPTIONS_SCRIPT_OPTS -> Prop({}, FALSE, FALSE, FALSE)
          [] p = P_PAUSE -> Prop({A_NTF_RST}, FALSE, FALSE, TRUE)
          [] p = P_PERCENT_POS -> Prop({}, FALSE, FALSE, FALSE)
          [] p = P_TIME_POS -> Prop({A_NTF_UPD}, FALSE, FALSE, TRUE)
          [] p = P_USER_DATA__DETECT_IMAGE__DETECTED ->
                Prop({A_NTF_UPD}, FALSE, TRUE, FALSE)
          [] p = P_VID ->
                Prop({A_NTF_UPD, A_NTF_CHECK_IMAGE}, FALSE, FALSE, FALSE)
          [] p = P_VOLUME -> Prop({A_NTF_UPD}, FALSE, FALSE, TRUE)]

\* the properties whose saved node later code reads (op_true / op_avail)
SavedProps ==
    {P_CURRENT_TRACKS__VIDEO__IMAGE, P_EOF_REACHED, P_FOCUSED, P_IDLE_ACTIVE,
     P_LAVFI_COMPLEX, P_PERCENT_POS, P_TIME_POS,
     P_USER_DATA__DETECT_IMAGE__DETECTED, P_VID}

(***************************************************************************)
(* State.  The program's globals keep their names; timer_fd is the state   *)
(* of the kernel timer behind the descriptor, pending the screenshot       *)
(* commands mpv has accepted and not answered, script_opts the value of    *)
(* mpv's options/script-opts, calls the calls into libnotify and libmpv    *)
(* made by the last done() (or by the teardown), last what that done()     *)
(* started from, quiet that the playback engine sends nothing any more.    *)
(* ntf_image is whether the notification object carries an image, reply    *)
(* the last reply to a screenshot command handled in the current batch,    *)
(* with the options in force and whether the context held a buffer when    *)
(* its handling ended.                                                     *)
(***************************************************************************)
VARIABLES
    pc,
    done_actions,
    ntf_image_enabled,
    rewrite_summary,
    rewrite_body,
    metadata_avail,
    mouse_hovered,
    screenshot_in_progress,
    force_open,
    thumbnail_ctx,
    opts,
    opts_base,
    props,
    timer_armed,
    ntf,
    ntf_image,
    timer_fd,
    pending,
    script_opts,
    percent_pos_rounded,
    calls,
    reply,
    last,
    quiet

vars ==
    <<pc, done_actions, ntf_image_enabled, rewrite_summary, rewrite_body,
      metadata_avail, mouse_hovered, screenshot_in_progress, force_open,
      thumbnail_ctx, opts, opts_base, props, timer_armed, ntf, ntf_image,
      timer_fd, pending, script_opts, percent_pos_rounded, calls, reply,
      last, quiet>>

\* the globals as one record, the argument and result of every function
Globals ==
    [done_actions |-> done_actions,
     ntf_image_enabled |-> ntf_image_enabled,
     rewrite_summary |-> rewrite_summary,
     rewrite_body |-> rewrite_body,
     metadata_avail |-> metadata_avail,
     mouse_hovered |-> mouse_hovered,
     screenshot_in_progress |-> screenshot_in_progress,
     force_open |-> force_open,
     thumbnail_ctx |-> thumbnail_ctx,
     opts |-> opts,
     opts_base |-> opts_base,
     props |-> props,
     timer_armed |-> timer_armed,
     ntf |-> ntf,
     ntf_image |-> ntf_image,
     timer_fd |-> timer_fd,
     pending |-> pending,
     script_opts |-> script_opts,
     percent_pos_rounded |-> percent_pos_rounded,
     calls |-> calls,
     reply |-> reply]

Commit(s) ==
    /\ done_actions' = s.done_actions
    /\ ntf_image_enabled' = s.ntf_image_enabled
    /\ rewrite_summary' = s.rewrite_summary
    /\ rewrite_body' = s.rewrite_body
    /\ metadata_avail' = s.metadata_avail
    /\ mouse_hovered' = s.mouse_hovered
    /\ screenshot_in_progress' = s.screenshot_in_progress
    /\ force_open' = s.force_open
    /\ thumbnail_ctx' = s.thumbnail_ctx
    /\ opts' = s.opts
    /\ opts_base' = s.opts_base
    /\ props' = s.props
    /\ timer_armed' = s.timer_armed
    /\ ntf' = s.ntf
    /\ ntf_image' = s.ntf_image
    /\ timer_fd' = s.timer_fd
    /\ pending' = s.pending
    /\ script_opts' = s.script_opts
    /\ percent_pos_rounded' = s.percent_pos_rounded
    /\ calls' = s.calls
    /\ reply' = s.reply

\* ctx_new: the times thumbnail_ctx_maybe_new set out to build a context
\* command: the screenshot commands handed to mpv_command_async, screenshot:
\* the ones it accepted
\* close_failed: the closes the service refused; reobserve: the times every
\* property was unobserved and observed again
\* set_*: the times an attribute of the notification was written after
\* ntf_init; fault: the process died of a null pointer passed to strcmp
NoCalls ==
    [show |-> 0, show_failed |-> 0, update |-> 0, close |-> 0,
     screenshot |-> 0, reinit |-> 0, ctx_new |-> 0,
     set_app_icon |-> 0, set_category |-> 0, set_urgency |-> 0,
     set_progress_bar |-> 0, fault |-> 0, close_failed |-> 0,
     reobserve |-> 0, command |-> 0, write_summary |-> 0, write_body |-> 0]

\* close_forced: a "close" message was handled in this batch while force_open
\* was set; reopened: and an "open" message after it; image_enabled and
\* thumbnail: ntf_image_enabled and whether thumbnail_ctx held a buffer;
\* file: the lines of the configuration file the last "reload-config" of
\* the batch read, when set_opt logged a conversion error for one of them;
\* order: the last "open" or "close" message of the batch, preceded by the
\* other one if the batch held both; open: see Presented
NoFile == <<>>

NoLast == [resolved |-> FALSE, actions |-> {}, timer_armed |-> FALSE,
           ntf |-> FALSE, expired |-> FALSE, path |-> "none",
           close_forced |-> FALSE, reopened |-> FALSE,
           image_enabled |-> FALSE, thumbnail |-> FALSE, file |-> NoFile,
           open |-> FALSE, order |-> "none"]

\* whether the notification service is left presenting the notification:
\* a show it accepted opens it, a close it accepted takes it down
Presented(s, was) ==
    CASE s.calls.show > s.calls.show_failed -> TRUE
      [] s.calls.close > s.calls.close_failed -> FALSE
      [] OTHER -> was

Log(s, what) == [s EXCEPT !.calls[what] = @ + 1]

NoReply ==
    [seen |-> FALSE,
     result |-> [format |-> "MPV_FORMAT_NONE", data |-> FALSE,
                 w |-> 0, h |-> 0, stride |-> 0],
     fail |-> "none", opts |-> opts_defaults, built |-> FALSE]


(***************************************************************************)
(* Property and option values.  An mpv_node is its format and its value;   *)
(* a flag is 0 or 1 as in the C union.                                     *)
(***************************************************************************)
MPV_FORMAT_STRING == "MPV_FORMAT_STRING"
MPV_FORMAT_FLAG == "MPV_FORMAT_FLAG"
MPV_FORMAT_INT64 == "MPV_FORMAT_INT64"
MPV_FORMAT_DOUBLE == "MPV_FORMAT_DOUBLE"
MPV_FORMAT_NODE == "MPV_FORMAT_NODE"
MPV_FORMAT_NODE_MAP == "MPV_FORMAT_NODE_MAP"

Node(format, u) == [format |-> format, u |-> u]

prop_format(p) ==
    CASE p \in {P_CURRENT_TRACKS__VIDEO__IMAGE, P_EOF_REACHED, P_FOCUSED,
                P_IDLE_ACTIVE, P_PAUSE,
                P_USER_DATA__DETECT_IMAGE__DETECTED} ->
            MPV_FORMAT_FLAG
      [] p = P_PERCENT_POS -> MPV_FORMAT_DOUBLE
      [] p \in {P_BRIGHTNESS, P_TIME_POS, P_VID, P_VOLUME} -> MPV_FORMAT_INT64
      [] p \in {P_LAVFI_COMPLEX, P_MEDIA_TITLE} -> MPV_FORMAT_STRING
      [] p \in {P_METADATA, P_MOUSE_POS, P_OPTIONS_SCRIPT_OPTS} ->
            MPV_FORMAT_NODE

\* (struct mpv_node){0} in the union member the property uses
ZeroNode(p) == Node(NONE, IF prop_format(p) = MPV_FORMAT_STRING THEN "" ELSE 0)

str_is_set(str) == str # ""

node_true(node) ==
    CASE node.format = NONE -> FALSE
      [] node.format = MPV_FORMAT_STRING -> str_is_set(node.u)
      [] node.format = MPV_FORMAT_FLAG -> node.u # 0
      [] node.format = MPV_FORMAT_INT64 -> node.u # 0
      [] OTHER -> FALSE

op_true(s, ud) == node_true(s.props[ud])

op_avail(s, ud) == s.props[ud].format # NONE

opt_true(s, opt) ==
    CASE opt \in {O_SEND_THUMBNAIL, O_DISABLE_SCALING, O_FOCUS_MANUAL,
                  O_PERFDATA} ->
            s.opts[opt]
      [] opt \in {O_EXPIRE_TIMEOUT, O_THUMBNAIL_SIZE} -> s.opts[opt] # 0

\* timer_disarm that forgets the flag
timer_disarm_KeepsFlag(s) == [s EXCEPT !.timer_fd = "off"]

timer_disarm(s) == [s EXCEPT !.timer_fd = "off", !.timer_armed = FALSE]

timerfd_settime_ZeroFires(s, sec) == [s EXCEPT !.timer_fd = "running"]

\* timerfd_settime with it_value.tv_sec = sec: a zero it_value disarms
timerfd_settime(s, sec) ==
    [s EXCEPT !.timer_fd = IF sec > 0 THEN "running" ELSE "off"]

(***************************************************************************)
(* Thumbnail context.                                                      *)
(***************************************************************************)
MAX(a, b) == IF a > b THEN a ELSE b

\* sws_flags: the algorithm the scaling engine in sws was created for
ZeroCtx ==
    [src_w |-> 0, src_stride |-> 0, src_h |-> 0,
     dst_w |-> 0, dst_stride |-> 0, dst_h |-> 0,
     thumbnail |-> FALSE, pixbuf |-> FALSE, sws |-> FALSE,
     sws_flags |-> 0]

\* notify_notification_set_image_from_pixbuf: a NULL pixbuf clears the image
ntf_set_image(s) ==
    IF ~s.ntf THEN s ELSE [s EXCEPT !.ntf_image = s.thumbnail_ctx.pixbuf]

\* thumbnail_ctx_destroy that leaves the image of the notification alone
thumbnail_ctx_destroy_KeepsImage(s) == [s EXCEPT !.thumbnail_ctx = ZeroCtx]

thumbnail_ctx_destroy(s) == ntf_set_image([s EXCEPT !.thumbnail_ctx = ZeroCtx])

\* The triples <<src, m, size>> for which src * (size / m), evaluated in
\* binary64 as the code does, falls below the integer src * size / m, so that
\* the cast to int yields one less: listed for src and m among the frame
\* dimensions 1, 49, 64, 67, 100, 128, 1080, 1920, 8192, 32767, 32776 and size
\* among the thumbnail sizes 10, 32, 64, the values the specifications use.
DoubleShort == {<<49, 49, 32>>, <<49, 49, 64>>}

\* (int)(src * fmin(size / src_w, size / src_h))
ScaledDim(src, src_w, src_h, size) ==
    LET m == MAX(src_w, src_h)
    IN  (src * size) \div m - (IF <<src, m, size>> \in DoubleShort THEN 1 ELSE 0)

\* a * b for 0 <= a < 2^31 and 0 <= b < 2^15, as hi * 2^16 + lo
Product(a, b) ==
    LET a1 == a \div 65536
        a0 == a % 65536
    IN  [hi |-> a1 * b + (a0 * b) \div 65536, lo |-> (a0 * b) % 65536]

\* the product does not fit the int the multiplication is done in
Overflows(p) == p.hi >= 32768

\* the int a wrapped multiplication leaves: negative, or its value
Wrapped(p) ==
    IF (p.hi % 65536) >= 32768 THEN -1
    ELSE (p.hi % 65536) * 65536 + p.lo

\* p > MAX_IMAGE_SIZE
TooLarge(p) ==
    \/ p.hi > MAX_IMAGE_SIZE \div 65536
    \/ p.hi = MAX_IMAGE_SIZE \div 65536 /\ p.lo > MAX_IMAGE_SIZE % 65536

\* thumbnail_ctx_maybe_new that keeps the context for an equal stride only
thumbnail_ctx_maybe_new_StrideKeyed(s, src_w, src_h, src_stride, fail) ==
    IF /\ src_w = s.thumbnail_ctx.src_w
       /\ src_h = s.thumbnail_ctx.src_h
       /\ src_stride = s.thumbnail_ctx.src_stride
    THEN [s EXCEPT !.thumbnail_ctx.src_stride = src_stride]
    ELSE
      LET s1 == Log(thumbnail_ctx_destroy(s), "ctx_new")
          scaling == ~opt_true(s1, O_DISABLE_SCALING)
          size == s1.opts[O_THUMBNAIL_SIZE]
          dst_w == IF scaling THEN MAX(1, ScaledDim(src_w, src_w, src_h, size))
                   ELSE src_w
          dst_h == IF scaling THEN MAX(1, ScaledDim(src_h, src_w, src_h, size))
                   ELSE src_h
          dst_stride == IF scaling THEN dst_w * 4 ELSE src_stride
          s2 == [s1 EXCEPT !.thumbnail_ctx =
                    [src_w |-> src_w, src_stride |-> src_stride,
                     src_h |-> src_h, dst_w |-> dst_w,
                     dst_stride |-> dst_stride, dst_h |-> dst_h,
                     thumbnail |-> FALSE, pixbuf |-> FALSE,
                     sws |-> scaling,
                     sws_flags |-> IF scaling
                                   THEN s1.opts[O_THUMBNAIL_SCALING]
                                   ELSE 0]]
          true_size == Product(dst_stride, dst_h)
          wraps == Overflows(true_size) /\ fail # "wide"
          too_large == IF wraps THEN Wrapped(true_size) > MAX_IMAGE_SIZE
                       ELSE TooLarge(true_size)
      IN  IF scaling /\ fail = "sws" THEN thumbnail_ctx_destroy(s2)
          ELSE IF too_large THEN thumbnail_ctx_destroy(s2)
          ELSE IF fail = "malloc" \/ (wraps /\ Wrapped(true_size) < 0)
               THEN thumbnail_ctx_destroy(s2)
          ELSE IF fail = "pixbuf"
               THEN thumbnail_ctx_destroy(
                        [s2 EXCEPT !.thumbnail_ctx.thumbnail = TRUE])
          ELSE ntf_set_image([s2 EXCEPT !.thumbnail_ctx.thumbnail = TRUE,
                                        !.thumbnail_ctx.pixbuf = TRUE])

\* fail: the allocation of the call that fails, "none" if all succeed.
\* dst_stride * dst_h is an int multiplication assigned to an int64_t: when it
\* overflows the behaviour is undefined, and a build either wraps it to 32
\* bits (fail = "none") or multiplies in 64 bits (fail = "wide").  A negative
\* alloc_size passes the size test and makes malloc fail.
thumbnail_ctx_maybe_new(s, src_w, src_h, src_stride, fail) ==
    IF /\ src_w = s.thumbnail_ctx.src_w
       /\ src_h = s.thumbnail_ctx.src_h
       /\ (~opt_true(s, O_DISABLE_SCALING)
           \/ src_stride = s.thumbnail_ctx.src_stride)
    THEN [s EXCEPT !.thumbnail_ctx.src_stride = src_stride]
    ELSE
      LET s1 == Log(thumbnail_ctx_destroy(s), "ctx_new")
          scaling == ~opt_true(s1, O_DISABLE_SCALING)
          size == s1.opts[O_THUMBNAIL_SIZE]
          dst_w == IF scaling THEN MAX(1, ScaledDim(src_w, src_w, src_h, size))
                   ELSE src_w
          dst_h == IF scaling THEN MAX(1, ScaledDim(src_h, src_w, src_h, size))
                   ELSE src_h
          dst_stride == IF scaling THEN dst_w * 4 ELSE src_stride
          s2 == [s1 EXCEPT !.thumbnail_ctx =
                    [src_w |-> src_w, src_stride |-> src_stride,
                     src_h |-> src_h, dst_w |-> dst_w,
                     dst_stride |-> dst_stride, dst_h |-> dst_h,
                     thumbnail |-> FALSE, pixbuf |-> FALSE,
                     sws |-> scaling,
                     sws_flags |-> IF scaling
                                   THEN s1.opts[O_THUMBNAIL_SCALING]
                                   ELSE 0]]
          true_size == Product(dst_stride, dst_h)
          wraps == Overflows(true_size) /\ fail # "wide"
          too_large == IF wraps THEN Wrapped(true_size) > MAX_IMAGE_SIZE
                       ELSE TooLarge(true_size)
      IN  IF scaling /\ fail = "sws" THEN thumbnail_ctx_destroy(s2)
          ELSE IF too_large THEN thumbnail_ctx_destroy(s2)
          ELSE IF fail = "malloc" \/ (wraps /\ Wrapped(true_size) < 0)
               THEN thumbnail_ctx_destroy(s2)
          ELSE IF fail = "pixbuf"
               THEN thumbnail_ctx_destroy(
                        [s2 EXCEPT !.thumbnail_ctx.thumbnail = TRUE])
          ELSE ntf_set_image([s2 EXCEPT !.thumbnail_ctx.thumbnail = TRUE,
                                        !.thumbnail_ctx.pixbuf = TRUE])

thumbnail_ctx_process(s) ==
    IF ~s.thumbnail_ctx.thumbnail THEN s
    ELSE [s EXCEPT !.done_actions = @ \cup {A_NTF_UPD},
                   !.rewrite_body = @ \/ opt_true(s, O_PERFDATA)]

\* ntf_check_image that keeps the context when it disables the image
ntf_check_image_KeepsContext(s) ==
    LET switching_track ==
            ~op_true(s, P_IDLE_ACTIVE) /\ ~op_avail(s, P_VID)
            /\ ~s.metadata_avail
    IN  IF \/ op_true(s, P_IDLE_ACTIVE)
           \/ ~opt_true(s, O_SEND_THUMBNAIL)
           \/ (~op_avail(s, P_VID) /\ ~op_true(s, P_LAVFI_COMPLEX)
               /\ ~switching_track)
        THEN IF s.ntf_image_enabled
             THEN [s EXCEPT !.ntf_image_enabled = FALSE,
                            !.done_actions = @ \cup {A_NTF_UPD}]
             ELSE s
        ELSE [s EXCEPT !.ntf_image_enabled = TRUE]

\* ntf_check_image that does not know of a track switch
ntf_check_image_NoSwitch(s) ==
    IF \/ op_true(s, P_IDLE_ACTIVE)
       \/ ~opt_true(s, O_SEND_THUMBNAIL)
       \/ (~op_avail(s, P_VID) /\ ~op_true(s, P_LAVFI_COMPLEX))
    THEN IF s.ntf_image_enabled
         THEN [thumbnail_ctx_destroy(
                   [s EXCEPT !.ntf_image_enabled = FALSE])
                 EXCEPT !.done_actions = @ \cup {A_NTF_UPD}]
         ELSE s
    ELSE [s EXCEPT !.ntf_image_enabled = TRUE]

\* ntf_check_image that asks for a screenshot when it enables the image
ntf_check_image_Queues(s) ==
    LET switching_track ==
            ~op_true(s, P_IDLE_ACTIVE) /\ ~op_avail(s, P_VID)
            /\ ~s.metadata_avail
    IN  IF \/ op_true(s, P_IDLE_ACTIVE)
           \/ ~opt_true(s, O_SEND_THUMBNAIL)
           \/ (~op_avail(s, P_VID) /\ ~op_true(s, P_LAVFI_COMPLEX)
               /\ ~switching_track)
        THEN IF s.ntf_image_enabled
             THEN [thumbnail_ctx_destroy(
                       [s EXCEPT !.ntf_image_enabled = FALSE])
                     EXCEPT !.done_actions = @ \cup {A_NTF_UPD}]
             ELSE s
        ELSE [s EXCEPT !.ntf_image_enabled = TRUE,
                       !.done_actions =
                           IF s.ntf_image_enabled THEN @
                           ELSE @ \cup {A_FORCED_QUEUE_SHOT}]

ntf_check_image(s) ==
    LET switching_track ==
            ~op_true(s, P_IDLE_ACTIVE) /\ ~op_avail(s, P_VID)
            /\ ~s.metadata_avail
    IN  IF \/ op_true(s, P_IDLE_ACTIVE)
           \/ ~opt_true(s, O_SEND_THUMBNAIL)
           \/ (~op_avail(s, P_VID) /\ ~op_true(s, P_LAVFI_COMPLEX)
               /\ ~switching_track)
        THEN IF s.ntf_image_enabled
             THEN [thumbnail_ctx_destroy(
                       [s EXCEPT !.ntf_image_enabled = FALSE])
                     EXCEPT !.done_actions = @ \cup {A_NTF_UPD}]
             ELSE s
        ELSE [s EXCEPT !.ntf_image_enabled = TRUE]

(***************************************************************************)
(* Notification session.  ntf is TRUE when the NotifyNotification exists.  *)
(* e: what the outside answers during one handler: show_ok                 *)
(* (notify_notification_show), close_ok (notify_notification_close),       *)
(* init_ok (notify_init, the server caps and notify_notification_new all   *)
(* succeed), cmd_ok (mpv_command_async).                                   *)
(***************************************************************************)
Env ==
    [show_ok : BOOLEAN, close_ok : BOOLEAN, init_ok : BOOLEAN,
     cmd_ok : BOOLEAN]

ntf_set_app_icon(s) == IF ~s.ntf THEN s ELSE Log(s, "set_app_icon")

ntf_set_category(s) == IF ~s.ntf THEN s ELSE Log(s, "set_category")

ntf_set_urgency(s) == IF ~s.ntf THEN s ELSE Log(s, "set_urgency")

ntf_set_progress_bar(s) == IF ~s.ntf THEN s ELSE Log(s, "set_progress_bar")

\* ntf_close that never reaches the service
ntf_close_Skipped(s, e) == s

\* a failed close is reported and nothing else
ntf_close(s, e) ==
    IF ~s.ntf THEN s
    ELSE IF e.close_ok THEN Log(s, "close")
    ELSE Log(Log(s, "close"), "close_failed")

\* ntf_uninit that closes the notification and keeps the object
ntf_uninit_KeepsObject(s, e) == ntf_close(s, e)

ntf_uninit(s, e) ==
    [ntf_close(s, e) EXCEPT !.ntf = FALSE, !.ntf_image = FALSE]

ntf_init(s, e) ==
    IF ~e.init_ok THEN [s EXCEPT !.ntf = FALSE]
    ELSE ntf_set_image([s EXCEPT !.ntf = TRUE])

\* when a notification exists again every property is unobserved and
\* observed again
ntf_reinit(s, e) ==
    LET s1 == Log(ntf_init(ntf_uninit(s, e), e), "reinit")
    IN  IF s1.ntf THEN Log(s1, "reobserve") ELSE s1

\* ntf_upd that reports a failed show and goes on
ntf_upd_NoReinit(s, e) ==
    IF ~s.ntf THEN ntf_reinit(s, e)
    ELSE
      LET s0 == IF s.rewrite_summary
                THEN Log(s, "write_summary") ELSE s
          s1 == IF s.rewrite_body
                THEN Log(s0, "write_body") ELSE s0
          s2 == IF s.rewrite_summary \/ s.rewrite_body
                THEN Log(s1, "update") ELSE s1
          s3 == Log([s2 EXCEPT !.rewrite_summary = FALSE,
                               !.rewrite_body = FALSE], "show")
          s4 == IF ~e.show_ok
                THEN Log(s3, "show_failed")
                ELSE s3
      IN  [s4 EXCEPT !.rewrite_body = @ \/ opt_true(s4, O_PERFDATA)]

\* ntf_upd that writes both texts and updates on every refresh
ntf_upd_RewritesAll(s, e) ==
    IF ~s.ntf THEN ntf_reinit(s, e)
    ELSE
      LET s0 == IF TRUE
                THEN Log(s, "write_summary") ELSE s
          s1 == IF TRUE
                THEN Log(s0, "write_body") ELSE s0
          s2 == IF TRUE
                THEN Log(s1, "update") ELSE s1
          s3 == Log([s2 EXCEPT !.rewrite_summary = FALSE,
                               !.rewrite_body = FALSE], "show")
          s4 == IF ~e.show_ok
                THEN ntf_reinit(Log(s3, "show_failed"), e)
                ELSE s3
      IN  [s4 EXCEPT !.rewrite_body = @ \/ opt_true(s4, O_PERFDATA)]

\* write_summary and write_body are counted, not computed
ntf_upd(s, e) ==
    IF ~s.ntf THEN ntf_reinit(s, e)
    ELSE
      LET s0 == IF s.rewrite_summary
                THEN Log(s, "write_summary") ELSE s
          s1 == IF s.rewrite_body
                THEN Log(s0, "write_body") ELSE s0
          s2 == IF s.rewrite_summary \/ s.rewrite_body
                THEN Log(s1, "update") ELSE s1
          s3 == Log([s2 EXCEPT !.rewrite_summary = FALSE,
                               !.rewrite_body = FALSE], "show")
          s4 == IF ~e.show_ok
                THEN ntf_reinit(Log(s3, "show_failed"), e)
                ELSE s3
      IN  [s4 EXCEPT !.rewrite_body = @ \/ opt_true(s4, O_PERFDATA)]

queue_screenshot(s, force, e) ==
    IF ~s.ntf_image_enabled
       \/ (~s.timer_armed /\ (~force /\ ~s.force_open))
    THEN s
    ELSE
      LET s1 == Log([s EXCEPT !.screenshot_in_progress = FALSE], "command") IN
      IF e.cmd_ok
      THEN Log([s1 EXCEPT !.screenshot_in_progress = TRUE,
                          !.pending = @ + 1], "screenshot")
      ELSE s1

\* ntf_rst that asks for a screenshot whether or not the timer was armed
ntf_rst_Unarmed(s, e) ==
    LET timer_was_armed == s.timer_armed
        s1 == timerfd_settime(timer_disarm(s), s.opts[O_EXPIRE_TIMEOUT])
        s3 == IF ~timer_was_armed THEN queue_screenshot(s1, FALSE, e) ELSE s1
    IN  ntf_upd(s3, e)

ntf_rst_AlwaysShot(s, e) ==
    LET s1 == timerfd_settime(timer_disarm(s), s.opts[O_EXPIRE_TIMEOUT])
        s2 == [s1 EXCEPT !.timer_armed = TRUE]
    IN  ntf_upd(queue_screenshot(s2, FALSE, e), e)

\* ntf_rst that closes the notification to show it anew
ntf_rst_ClosesFirst(s, e) ==
    LET timer_was_armed == s.timer_armed
        s1 == timerfd_settime(timer_disarm(s), s.opts[O_EXPIRE_TIMEOUT])
        s2 == [s1 EXCEPT !.timer_armed = TRUE]
        s3 == IF ~timer_was_armed THEN queue_screenshot(s2, FALSE, e) ELSE s2
    IN  ntf_upd(ntf_close(s3, e), e)

ntf_rst(s, e) ==
    LET timer_was_armed == s.timer_armed
        s1 == timerfd_settime(timer_disarm(s), s.opts[O_EXPIRE_TIMEOUT])
        s2 == [s1 EXCEPT !.timer_armed = TRUE]
        s3 == IF ~timer_was_armed THEN queue_screenshot(s2, FALSE, e) ELSE s2
    IN  ntf_upd(s3, e)

\* player_considered_focused without the pointer
player_considered_focused_NoHover(s) ==
    op_true(s, P_FOCUSED) \/ opt_true(s, O_FOCUS_MANUAL)

player_considered_focused(s) ==
    op_true(s, P_FOCUSED) \/ s.mouse_hovered \/ opt_true(s, O_FOCUS_MANUAL)

\* DonePath with A_NTF_RST tested before A_NTF_CLOSE
DonePath_RstFirst(s) ==
    LET eligible ==
            /\ (~player_considered_focused(s) \/ s.force_open)
            /\ ((s.metadata_avail /\ op_avail(s, P_TIME_POS))
                \/ op_true(s, P_IDLE_ACTIVE))
    IN  IF eligible /\ A_NTF_RST \in s.done_actions THEN "rst"
        ELSE IF A_NTF_CLOSE \in s.done_actions /\ ~s.force_open THEN "close"
        ELSE IF eligible
             THEN IF A_NTF_UPD \in s.done_actions
                     /\ (s.timer_armed \/ s.force_open)
                  THEN "upd" ELSE "nothing"
             ELSE "ineligible"

\* DonePath whose A_NTF_CLOSE test does not read force_open
DonePath_CloseIgnoresForce(s) ==
    IF A_NTF_CLOSE \in s.done_actions THEN "close"
    ELSE IF /\ (~player_considered_focused(s) \/ s.force_open)
            /\ ((s.metadata_avail /\ op_avail(s, P_TIME_POS))
                \/ op_true(s, P_IDLE_ACTIVE))
         THEN IF A_NTF_RST \in s.done_actions THEN "rst"
              ELSE IF A_NTF_UPD \in s.done_actions
                      /\ (s.timer_armed \/ s.force_open)
                   THEN "upd"
                   ELSE "nothing"
         ELSE "ineligible"

\* DonePath whose focus test does not read force_open
DonePath_FocusOnly(s) ==
    IF A_NTF_CLOSE \in s.done_actions /\ ~s.force_open THEN "close"
    ELSE IF /\ ~player_considered_focused(s)
            /\ ((s.metadata_avail /\ op_avail(s, P_TIME_POS))
                \/ op_true(s, P_IDLE_ACTIVE))
         THEN IF A_NTF_RST \in s.done_actions THEN "rst"
              ELSE IF A_NTF_UPD \in s.done_actions
                      /\ (s.timer_armed \/ s.force_open)
                   THEN "upd"
                   ELSE "nothing"
         ELSE "ineligible"

\* DonePath whose A_NTF_UPD branch reads neither timer_armed nor force_open
DonePath_UpdUngated(s) ==
    IF A_NTF_CLOSE \in s.done_actions /\ ~s.force_open THEN "close"
    ELSE IF /\ (~player_considered_focused(s) \/ s.force_open)
            /\ ((s.metadata_avail /\ op_avail(s, P_TIME_POS))
                \/ op_true(s, P_IDLE_ACTIVE))
         THEN IF A_NTF_RST \in s.done_actions THEN "rst"
              ELSE IF A_NTF_UPD \in s.done_actions THEN "upd"
                   ELSE "nothing"
         ELSE "ineligible"

\* DonePath without the data gate
DonePath_NoDataGate(s) ==
    IF A_NTF_CLOSE \in s.done_actions /\ ~s.force_open THEN "close"
    ELSE IF ~player_considered_focused(s) \/ s.force_open
         THEN IF A_NTF_RST \in s.done_actions THEN "rst"
              ELSE IF A_NTF_UPD \in s.done_actions
                      /\ (s.timer_armed \/ s.force_open)
                   THEN "upd"
                   ELSE "nothing"
         ELSE "ineligible"

\* the branch done() takes after the screenshot step
DonePath(s) ==
    IF A_NTF_CLOSE \in s.done_actions /\ ~s.force_open THEN "close"
    ELSE IF /\ (~player_considered_focused(s) \/ s.force_open)
            /\ ((s.metadata_avail /\ op_avail(s, P_TIME_POS))
                \/ op_true(s, P_IDLE_ACTIVE))
         THEN IF A_NTF_RST \in s.done_actions THEN "rst"
              ELSE IF A_NTF_UPD \in s.done_actions
                      /\ (s.timer_armed \/ s.force_open)
                   THEN "upd"
                   ELSE "nothing"
         ELSE "ineligible"

\* done_queue that asks for the screenshot before ntf_check_image
done_queue_ShotFirst(s, e) ==
    LET s1 == IF A_FORCED_QUEUE_SHOT \in s.done_actions
              THEN queue_screenshot(s, TRUE, e)
              ELSE IF A_QUEUE_SHOT \in s.done_actions
                   THEN queue_screenshot(s, FALSE, e)
                   ELSE s
    IN  IF A_NTF_CHECK_IMAGE \in s1.done_actions
        THEN ntf_check_image(s1) ELSE s1

\* done() up to and including the screenshot step
done_queue(s, e) ==
    LET s1 == IF A_NTF_CHECK_IMAGE \in s.done_actions
              THEN ntf_check_image(s) ELSE s
    IN  IF A_FORCED_QUEUE_SHOT \in s1.done_actions
        THEN queue_screenshot(s1, TRUE, e)
        ELSE IF A_QUEUE_SHOT \in s1.done_actions
             THEN queue_screenshot(s1, FALSE, e)
             ELSE s1

\* done() that leaves done_actions alone when the batch is ineligible
done_KeepsIneligible(s, e) ==
    LET s2 == done_queue(s, e)
        path == DonePath(s2)
        s3 == CASE path = "close" -> ntf_close(timer_disarm(s2), e)
                [] path = "rst" -> ntf_rst(s2, e)
                [] path = "upd" -> ntf_upd(s2, e)
                [] OTHER -> s2
    IN  IF path = "ineligible" THEN s3 ELSE [s3 EXCEPT !.done_actions = {}]

done(s, e) ==
    LET s2 == done_queue(s, e)
        path == DonePath(s2)
        s3 == CASE path = "close" -> ntf_close(timer_disarm(s2), e)
                [] path = "rst" -> ntf_rst(s2, e)
                [] path = "upd" -> ntf_upd(s2, e)
                [] OTHER -> s2
    IN  [s3 EXCEPT !.done_actions = {}]


(***************************************************************************)
(* Options: set_opt parses one key=value pair, opts_from_runtime layers    *)
(* the script-opts map on an option set, opts_run_changed runs the action  *)
(* of every option that differs between two option sets.                   *)
(***************************************************************************)
\* strtol on the strings the model supplies
Decimal == ("-1" :> -1) @@ ("0" :> 0) @@ ("10" :> 10) @@ ("32" :> 32)

strtolol(str) ==
    IF str \in DOMAIN Decimal THEN [ok |-> TRUE, lol |-> Decimal[str]]
    ELSE [ok |-> FALSE, lol |-> 0]

set_opt_bool(o, opt, value) ==
    IF value = "yes" THEN [o EXCEPT ![opt] = TRUE]
    ELSE IF value = "no" THEN [o EXCEPT ![opt] = FALSE]
    ELSE o

\* the pairs for which set_opt goes to bad_number or bad_bool
bad_value(key, value) ==
    CASE key = O_EXPIRE_TIMEOUT ->
            ~strtolol(value).ok \/ strtolol(value).lol < 0
      [] key = O_THUMBNAIL_SIZE ->
            ~strtolol(value).ok \/ strtolol(value).lol < 1
      [] key \in {O_SEND_THUMBNAIL, O_DISABLE_SCALING, O_FOCUS_MANUAL,
                  O_PERFDATA} ->
            value \notin {"yes", "no"}
      [] OTHER -> FALSE

\* set_opt that stores every number strtolol converts
set_opt_NoRange(o, key, value) ==
    CASE key \in {O_EXPIRE_TIMEOUT, O_THUMBNAIL_SIZE} ->
            IF ~strtolol(value).ok THEN o
            ELSE [o EXCEPT ![key] = strtolol(value).lol]
      [] key = O_THUMBNAIL_SCALING ->
            [o EXCEPT ![key] =
                CASE value = "fast-bilinear" -> SWS_FAST_BILINEAR
                  [] value = "bilinear" -> SWS_BILINEAR
                  [] value = "bicubic" -> SWS_BICUBIC
                  [] value = "lanczos" -> SWS_LANCZOS
                  [] OTHER -> SWS_BICUBIC]
      [] key \in {O_SEND_THUMBNAIL, O_DISABLE_SCALING, O_FOCUS_MANUAL,
                  O_PERFDATA} ->
            set_opt_bool(o, key, value)
      [] OTHER -> o

set_opt(o, key, value) ==
    CASE key = O_EXPIRE_TIMEOUT ->
            IF ~strtolol(value).ok \/ strtolol(value).lol < 0 THEN o
            ELSE [o EXCEPT ![key] = strtolol(value).lol]
      [] key = O_THUMBNAIL_SIZE ->
            IF ~strtolol(value).ok \/ strtolol(value).lol < 1 THEN o
            ELSE [o EXCEPT ![key] = strtolol(value).lol]
      [] key = O_THUMBNAIL_SCALING ->
            [o EXCEPT ![key] =
                CASE value = "fast-bilinear" -> SWS_FAST_BILINEAR
                  [] value = "bilinear" -> SWS_BILINEAR
                  [] value = "bicubic" -> SWS_BICUBIC
                  [] value = "lanczos" -> SWS_LANCZOS
                  [] OTHER -> SWS_BICUBIC]
      [] key \in {O_SEND_THUMBNAIL, O_DISABLE_SCALING, O_FOCUS_MANUAL,
                  O_PERFDATA} ->
            set_opt_bool(o, key, value)
      [] OTHER -> o

\* list: the entries of the map that carry this client's name, by option
apply_list(o, list) ==
    [k \in opts_key |->
        IF k \in DOMAIN list /\ list[k].format = MPV_FORMAT_STRING
        THEN set_opt(o, k, list[k].u)[k]
        ELSE o[k]]

opts_from_runtime(o, node) ==
    IF node.format # MPV_FORMAT_NODE_MAP THEN o ELSE apply_list(o, node.list)

\* file: the key=value lines of script-opts/<client>.conf, by key
opts_from_file(o, file) ==
    [k \in opts_key |->
        IF k \in DOMAIN file THEN set_opt(o, k, file[k])[k] ELSE o[k]]

\* whether the first switch of the loop finds slot i changed.  differ: what
\* strcmp returns for two null pointers where it returns at all
opt_changed(before, after, i, differ) ==
    IF i \in opts_strings
    THEN IF (before[i] = NULL) # (after[i] = NULL) THEN TRUE
         ELSE IF before[i] = NULL THEN differ
         ELSE before[i] # after[i]
    ELSE before[i] # after[i]

\* opt_case whose thumbnail cases leave the thumbnail context alone
opt_case_KeepsContext(s, i) ==
    LET Or(s1, actions) == [s1 EXCEPT !.done_actions = @ \cup actions] IN
    CASE i = O_NTF_APP_ICON -> Or(ntf_set_app_icon(s), {A_NTF_UPD})
      [] i = O_NTF_CATEGORY -> Or(ntf_set_category(s), {A_NTF_UPD})
      [] i = O_NTF_URGENCY -> Or(ntf_set_urgency(s), {A_NTF_UPD})
      [] i = O_SEND_THUMBNAIL ->
            Or(s, {A_NTF_CHECK_IMAGE}
                  \cup (IF opt_true(s, O_SEND_THUMBNAIL)
                        THEN {A_QUEUE_SHOT} ELSE {}))
      [] i = O_SEND_PROGRESS -> Or(ntf_set_progress_bar(s), {A_NTF_UPD})
      [] i \in {O_SEND_SUB_TEXT, O_PERFDATA} ->
            [Or(s, {A_NTF_UPD}) EXCEPT !.rewrite_body = TRUE]
      [] i \in {O_THUMBNAIL_SIZE, O_THUMBNAIL_SCALING, O_DISABLE_SCALING} ->
            Or(s, {A_QUEUE_SHOT})
      [] i = O_SCREENSHOT_FLAGS -> Or(s, {A_QUEUE_SHOT})
      [] i = O_FOCUS_MANUAL -> Or(s, {A_NTF_RST})
      [] OTHER -> s

\* the case of slot i in the second switch
opt_case(s, i) ==
    LET Or(s1, actions) == [s1 EXCEPT !.done_actions = @ \cup actions] IN
    CASE i = O_NTF_APP_ICON -> Or(ntf_set_app_icon(s), {A_NTF_UPD})
      [] i = O_NTF_CATEGORY -> Or(ntf_set_category(s), {A_NTF_UPD})
      [] i = O_NTF_URGENCY -> Or(ntf_set_urgency(s), {A_NTF_UPD})
      [] i = O_SEND_THUMBNAIL ->
            Or(s, {A_NTF_CHECK_IMAGE}
                  \cup (IF opt_true(s, O_SEND_THUMBNAIL)
                        THEN {A_QUEUE_SHOT} ELSE {}))
      [] i = O_SEND_PROGRESS -> Or(ntf_set_progress_bar(s), {A_NTF_UPD})
      [] i \in {O_SEND_SUB_TEXT, O_PERFDATA} ->
            [Or(s, {A_NTF_UPD}) EXCEPT !.rewrite_body = TRUE]
      [] i \in {O_THUMBNAIL_SIZE, O_THUMBNAIL_SCALING, O_DISABLE_SCALING} ->
            Or(thumbnail_ctx_destroy(s), {A_QUEUE_SHOT})
      [] i = O_SCREENSHOT_FLAGS -> Or(s, {A_QUEUE_SHOT})
      [] i = O_FOCUS_MANUAL -> Or(s, {A_NTF_RST})
      [] OTHER -> s

\* the loop from slot number n on, over the slots the option sets hold
RECURSIVE opts_run_from(_, _, _, _, _)
opts_run_from(s, before, after, ub, n) ==
    IF n > Len(opts_slots) THEN s
    ELSE LET i == opts_slots[n] IN
         IF i \notin DOMAIN before
         THEN opts_run_from(s, before, after, ub, n + 1)
         ELSE IF /\ i \in opts_strings
                 /\ before[i] = NULL /\ after[i] = NULL
                 /\ ub = "fault"
         THEN Log(s, "fault")
         ELSE IF opt_changed(before, after, i, ub = "differ")
         THEN opts_run_from(opt_case(s, i), before, after, ub, n + 1)
         ELSE opts_run_from(s, before, after, ub, n + 1)

\* s.opts is the option set after the change, as in the callers.  ub: what
\* strcmp does with two null pointers: "fault", or it returns "equal" or
\* "differ"
opts_run_changed(s, before, after, ub) ==
    opts_run_from(s, before, after, ub, 1)

(***************************************************************************)
(* Event handlers.                                                         *)
(***************************************************************************)
metadata_update(s, event_prop) ==
    [s EXCEPT !.metadata_avail =
        /\ event_prop.format = MPV_FORMAT_NODE
        /\ event_prop.u.format = MPV_FORMAT_NODE_MAP]

mouse_is_hovered(event_prop) ==
    /\ event_prop.format = MPV_FORMAT_NODE
    /\ event_prop.u.format = MPV_FORMAT_NODE_MAP
    /\ "hover" \in DOMAIN event_prop.u.list
    /\ event_prop.u.list["hover"].format = MPV_FORMAT_FLAG
    /\ event_prop.u.list["hover"].u # 0

\* the node save_prop leaves in observed_props[ud].node
\* a double is its value in tenths; the positions the engine reports are
\* finite and not negative, and of these only 0.0 is not normal
Double(tenths) == Node(MPV_FORMAT_DOUBLE, tenths)

isnormal(x) == x # 0

lround_Truncates(x) == x \div 10

\* lround: to the nearest integer, halfway cases away from zero
lround(x) == (x + 5) \div 10

saved_node(ud, event_prop) ==
    IF event_prop.format \in
           {MPV_FORMAT_STRING, MPV_FORMAT_FLAG, MPV_FORMAT_INT64,
            MPV_FORMAT_DOUBLE}
    THEN Node(event_prop.format, event_prop.u)
    ELSE ZeroNode(ud)

save_prop(s, ud, event_prop) ==
    IF ud \in SavedProps
    THEN [s EXCEPT !.props[ud] = saved_node(ud, event_prop)]
    ELSE s

\* on_property_change that layers script-opts on the active option set
on_property_change_LayersOnActive(s, ud, event_prop) ==
    LET prop == observed_props[ud]
        s1 == save_prop(s, ud, event_prop)
        s2 == IF ~prop.action_if_true \/ node_true(saved_node(ud, event_prop))
              THEN [s1 EXCEPT !.done_actions = @ \cup prop.action]
              ELSE s1
        s3 == [s2 EXCEPT
                 !.rewrite_summary = @ \/ prop.part_of_summary,
                 !.rewrite_body = @ \/ prop.part_of_body]
    IN  CASE ud = P_IDLE_ACTIVE -> [s3 EXCEPT !.rewrite_body = TRUE]
          [] ud = P_METADATA -> metadata_update(s3, event_prop)
          [] ud = P_MOUSE_POS ->
                LET hovered == mouse_is_hovered(event_prop) IN
                [s3 EXCEPT
                   !.mouse_hovered = hovered,
                   !.done_actions =
                       IF ~s3.mouse_hovered /\ hovered
                       THEN @ \cup {A_NTF_CLOSE} ELSE @]
          [] ud = P_PERCENT_POS ->
                LET s4 == IF ~op_true(s3, P_CURRENT_TRACKS__VIDEO__IMAGE)
                          THEN [s3 EXCEPT
                                  !.done_actions = @ \cup {A_QUEUE_SHOT}]
                          ELSE s3
                    old_rounded == s4.percent_pos_rounded
                    s5 == [s4 EXCEPT !.percent_pos_rounded =
                              IF /\ op_avail(s4, P_PERCENT_POS)
                                 /\ isnormal(s4.props[P_PERCENT_POS].u)
                              THEN lround(s4.props[P_PERCENT_POS].u)
                              ELSE 0]
                IN  IF old_rounded # s5.percent_pos_rounded
                    THEN [s5 EXCEPT
                            !.done_actions = @ \cup {A_NTF_UPD},
                            !.rewrite_body = TRUE]
                    ELSE s5
          [] ud = P_OPTIONS_SCRIPT_OPTS ->
                LET opts_previous == s3.opts
                    o == IF event_prop.format = MPV_FORMAT_NODE
                         THEN opts_from_runtime(s3.opts, event_prop.u)
                         ELSE s3.opts
                IN  opts_run_changed([s3 EXCEPT !.opts = o],
                                     opts_previous, o, "fault")
          [] OTHER -> s3

\* on_property_change that triggers the actions whatever the new value
on_property_change_AlwaysTriggers(s, ud, event_prop) ==
    LET prop == observed_props[ud]
        s1 == save_prop(s, ud, event_prop)
        s2 == [s1 EXCEPT !.done_actions = @ \cup prop.action]
        s3 == [s2 EXCEPT
                 !.rewrite_summary = @ \/ prop.part_of_summary,
                 !.rewrite_body = @ \/ prop.part_of_body]
    IN  CASE ud = P_IDLE_ACTIVE -> [s3 EXCEPT !.rewrite_body = TRUE]
          [] ud = P_METADATA -> metadata_update(s3, event_prop)
          [] ud = P_MOUSE_POS ->
                LET hovered == mouse_is_hovered(event_prop) IN
                [s3 EXCEPT
                   !.mouse_hovered = hovered,
                   !.done_actions =
                       IF ~s3.mouse_hovered /\ hovered
                       THEN @ \cup {A_NTF_CLOSE} ELSE @]
          [] ud = P_PERCENT_POS ->
                LET s4 == IF ~op_true(s3, P_CURRENT_TRACKS__VIDEO__IMAGE)
                          THEN [s3 EXCEPT
                                  !.done_actions = @ \cup {A_QUEUE_SHOT}]
                          ELSE s3
                    old_rounded == s4.percent_pos_rounded
                    s5 == [s4 EXCEPT !.percent_pos_rounded =
                              IF /\ op_avail(s4, P_PERCENT_POS)
                                 /\ isnormal(s4.props[P_PERCENT_POS].u)
                              THEN lround(s4.props[P_PERCENT_POS].u)
                              ELSE 0]
                IN  IF old_rounded # s5.percent_pos_rounded
                    THEN [s5 EXCEPT
                            !.done_actions = @ \cup {A_NTF_UPD},
                            !.rewrite_body = TRUE]
                    ELSE s5
          [] ud = P_OPTIONS_SCRIPT_OPTS ->
                LET opts_previous == s3.opts
                    o == IF event_prop.format = MPV_FORMAT_NODE
                         THEN opts_from_runtime(s3.opts_base, event_prop.u)
                         ELSE s3.opts_base
                IN  opts_run_changed([s3 EXCEPT !.opts = o],
                                     opts_previous, o, "fault")
          [] OTHER -> s3

on_property_change(s, ud, event_prop) ==
    LET prop == observed_props[ud]
        s1 == save_prop(s, ud, event_prop)
        s2 == IF ~prop.action_if_true \/ node_true(saved_node(ud, event_prop))
              THEN [s1 EXCEPT !.done_actions = @ \cup prop.action]
              ELSE s1
        s3 == [s2 EXCEPT
                 !.rewrite_summary = @ \/ prop.part_of_summary,
                 !.rewrite_body = @ \/ prop.part_of_body]
    IN  CASE ud = P_IDLE_ACTIVE -> [s3 EXCEPT !.rewrite_body = TRUE]
          [] ud = P_METADATA -> metadata_update(s3, event_prop)
          [] ud = P_MOUSE_POS ->
                LET hovered == mouse_is_hovered(event_prop) IN
                [s3 EXCEPT
                   !.mouse_hovered = hovered,
                   !.done_actions =
                       IF ~s3.mouse_hovered /\ hovered
                       THEN @ \cup {A_NTF_CLOSE} ELSE @]
          [] ud = P_PERCENT_POS ->
                LET s4 == IF ~op_true(s3, P_CURRENT_TRACKS__VIDEO__IMAGE)
                          THEN [s3 EXCEPT
                                  !.done_actions = @ \cup {A_QUEUE_SHOT}]
                          ELSE s3
                    old_rounded == s4.percent_pos_rounded
                    s5 == [s4 EXCEPT !.percent_pos_rounded =
                              IF /\ op_avail(s4, P_PERCENT_POS)
                                 /\ isnormal(s4.props[P_PERCENT_POS].u)
                              THEN lround(s4.props[P_PERCENT_POS].u)
                              ELSE 0]
                IN  IF old_rounded # s5.percent_pos_rounded
                    THEN [s5 EXCEPT
                            !.done_actions = @ \cup {A_NTF_UPD},
                            !.rewrite_body = TRUE]
                    ELSE s5
          [] ud = P_OPTIONS_SCRIPT_OPTS ->
                LET opts_previous == s3.opts
                    o == IF event_prop.format = MPV_FORMAT_NODE
                         THEN opts_from_runtime(s3.opts_base, event_prop.u)
                         ELSE s3.opts_base
                IN  opts_run_changed([s3 EXCEPT !.opts = o],
                                     opts_previous, o, "fault")
          [] OTHER -> s3

\* on_done_screenshot that tests the format of the result only
on_done_screenshot_FormatOnly(s, result, fail) ==
    IF ~s.ntf_image_enabled THEN s
    ELSE
      LET s1 == [s EXCEPT !.screenshot_in_progress = FALSE] IN
      IF result.format # MPV_FORMAT_NODE_MAP THEN s1
      ELSE thumbnail_ctx_process(
               thumbnail_ctx_maybe_new(s1, result.w, result.h,
                                       result.stride, fail))

\* on_done_screenshot that handles the reply with the image disabled too
on_done_screenshot_Unguarded(s, result, fail) ==
    IF FALSE THEN s
    ELSE
      LET s1 == [s EXCEPT !.screenshot_in_progress = FALSE] IN
      IF result.format # MPV_FORMAT_NODE_MAP THEN s1
      ELSE IF ~result.data \/ result.w = 0 \/ result.h = 0
              \/ result.stride = 0
           THEN s1
           ELSE thumbnail_ctx_process(
                    thumbnail_ctx_maybe_new(s1, result.w, result.h,
                                            result.stride, fail))

on_done_screenshot(s, result, fail) ==
    IF ~s.ntf_image_enabled THEN s
    ELSE
      LET s1 == [s EXCEPT !.screenshot_in_progress = FALSE] IN
      IF result.format # MPV_FORMAT_NODE_MAP THEN s1
      ELSE IF ~result.data \/ result.w = 0 \/ result.h = 0
              \/ result.stride = 0
           THEN s1
           ELSE thumbnail_ctx_process(
                    thumbnail_ctx_maybe_new(s1, result.w, result.h,
                                            result.stride, fail))

\* on_client_message whose "close" reads force_open and does not write it
on_client_message_FirstWins(s, arg0, file) ==
    CASE arg0 = "close" ->
            [s EXCEPT !.done_actions = @ \cup {A_NTF_CLOSE},
                      !.force_open = FALSE]
      [] arg0 = "open" ->
            [s EXCEPT !.done_actions = @ \cup {A_NTF_RST},
                      !.force_open = A_NTF_CLOSE \notin s.done_actions]
      [] arg0 = "reload-config" ->
            LET opts_previous == s.opts
                base == opts_from_file(opts_defaults, file)
                o == opts_from_runtime(base, s.script_opts)
            IN  opts_run_changed([s EXCEPT !.opts = o, !.opts_base = base],
                                 opts_previous, o, "fault")
      [] OTHER -> s

on_client_message_KeepsForce(s, arg0, file) ==
    CASE arg0 = "close" ->
            [s EXCEPT !.done_actions = @ \cup {A_NTF_CLOSE}]
      [] arg0 = "open" ->
            [s EXCEPT !.done_actions = @ \cup {A_NTF_RST},
                      !.force_open = TRUE]
      [] arg0 = "reload-config" ->
            LET opts_previous == s.opts
                base == opts_from_file(opts_defaults, file)
                o == opts_from_runtime(base, s.script_opts)
            IN  opts_run_changed([s EXCEPT !.opts = o, !.opts_base = base],
                                 opts_previous, o, "fault")
      [] OTHER -> s

on_client_message(s, arg0, file) ==
    CASE arg0 = "close" ->
            [s EXCEPT !.done_actions = @ \cup {A_NTF_CLOSE},
                      !.force_open = FALSE]
      [] arg0 = "open" ->
            [s EXCEPT !.done_actions = @ \cup {A_NTF_RST},
                      !.force_open = TRUE]
      [] arg0 = "reload-config" ->
            LET opts_previous == s.opts
                base == opts_from_file(opts_defaults, file)
                o == opts_from_runtime(base, s.script_opts)
            IN  opts_run_changed([s EXCEPT !.opts = o, !.opts_base = base],
                                 opts_previous, o, "fault")
      [] OTHER -> s


(***************************************************************************)
(* What the playback engine and the outside can send.                      *)
(***************************************************************************)
Unavailable == Node(NONE, 0)

NodeMap(list) == [format |-> MPV_FORMAT_NODE_MAP, list |-> list]

Flag(b) == Node(MPV_FORMAT_FLAG, b)

Str(str) == Node(MPV_FORMAT_STRING, str)

Hover(h) == Node(MPV_FORMAT_NODE, NodeMap([hover |-> Flag(h)]))

ScriptOpts(list) == Node(MPV_FORMAT_NODE, NodeMap(list))

\* results of screenshot-raw: an error, or a map with the frame
Frame(w, h, stride) ==
    [format |-> MPV_FORMAT_NODE_MAP, data |-> TRUE,
     w |-> w, h |-> h, stride |-> stride]

NoFrame == [format |-> NONE, data |-> FALSE, w |-> 0, h |-> 0, stride |-> 0]

\* a map without the "data" entry
NoData(w, h, stride) == [Frame(w, h, stride) EXCEPT !.data = FALSE]

(***************************************************************************)
(* The event loop of mpv_open_cplugin.  pc = "poll": blocked in poll();    *)
(* "dispatch": inside dispatch_mpv_events, between two mpv_wait_event;     *)
(* "exit": after the teardown.  The actions take the inputs the            *)
(* environment of a specification may supply.                              *)
(***************************************************************************)
\* files: script-opts/<client>.conf; created: whether ntf_init succeeded
Startup(files, created) ==
    /\ pc = "poll"
    /\ done_actions = {}
    /\ ntf_image_enabled = FALSE
    /\ rewrite_summary = FALSE
    /\ rewrite_body = FALSE
    /\ metadata_avail = FALSE
    /\ mouse_hovered = FALSE
    /\ screenshot_in_progress = FALSE
    /\ force_open = FALSE
    /\ thumbnail_ctx = ZeroCtx
    /\ \E file \in files :
          /\ opts = opts_from_file(opts_defaults, file)
          /\ opts_base = opts_from_file(opts_defaults, file)
    /\ props = [p \in SavedProps |-> ZeroNode(p)]
    /\ timer_armed = FALSE
    /\ ntf \in created
    /\ ntf_image = FALSE
    /\ timer_fd = "off"
    /\ pending = 0
    /\ script_opts = NodeMap(<<>>)
    /\ percent_pos_rounded = 0
    /\ calls = NoCalls
    /\ reply = NoReply
    /\ last = NoLast
    /\ quiet = FALSE

\* poll() returns with the wakeup pipe readable
PollWakeup ==
    /\ pc = "poll"
    /\ ~quiet
    /\ pc' = "dispatch"
    /\ calls' = NoCalls
    /\ last' = [NoLast EXCEPT !.open = last.open]
    /\ UNCHANGED <<done_actions, ntf_image_enabled, rewrite_summary,
                   rewrite_body, metadata_avail, mouse_hovered,
                   screenshot_in_progress, force_open, thumbnail_ctx, opts,
                   opts_base, props, timer_armed, ntf, ntf_image, timer_fd,
                   pending, script_opts, percent_pos_rounded, reply, quiet>>

Handled(s) ==
    /\ pc = "dispatch"
    /\ Commit(s)
    /\ UNCHANGED <<pc, last, quiet>>

\* what last records of the open and close messages of the batch
Commands(arg0, file) ==
    CASE arg0 = "close" ->
            [last EXCEPT !.close_forced = @ \/ force_open,
                         !.reopened = FALSE,
                         !.order = IF @ \in {"open", "close-open"}
                                   THEN "open-close"
                                   ELSE IF @ = "none" THEN "close" ELSE @]
      [] arg0 = "open" ->
            [last EXCEPT !.reopened = last.close_forced,
                         !.order = IF @ \in {"close", "open-close"}
                                   THEN "close-open"
                                   ELSE IF @ = "none" THEN "open" ELSE @]
      [] arg0 = "reload-config" ->
            [last EXCEPT !.file =
                IF \E k \in DOMAIN file : bad_value(k, file[k])
                THEN file ELSE NoFile]
      [] OTHER -> last

MpvEventVideoReconfig ==
    Handled([Globals EXCEPT !.done_actions = @ \cup {A_FORCED_QUEUE_SHOT}])

MpvEventSeek ==
    Handled([Globals EXCEPT !.done_actions = @ \cup {A_NTF_RST}])

MpvEventCommandReply(results, fails) ==
    /\ pending > 0
    /\ \E result \in results, fail \in fails :
          LET s1 == on_done_screenshot([Globals EXCEPT !.pending = @ - 1],
                                       result, fail)
          IN  Handled([s1 EXCEPT !.reply =
                           [seen |-> TRUE, result |-> result, fail |-> fail,
                            opts |-> s1.opts,
                            built |-> s1.thumbnail_ctx.thumbnail]])

MpvEventClientMessage(messages, files) ==
    \E arg0 \in messages, file \in files :
        /\ pc = "dispatch"
        /\ Commit(on_client_message(Globals, arg0, file))
        /\ last' = Commands(arg0, file)
        /\ UNCHANGED <<pc, quiet>>

\* events: pairs of a property and the value it changed to
MpvEventPropertyChange(events) ==
    \E ev \in events :
        Handled(on_property_change(
                    IF ev[1] = P_OPTIONS_SCRIPT_OPTS
                    THEN [Globals EXCEPT !.script_opts = ev[2].u]
                    ELSE Globals,
                    ev[1], ev[2]))

\* the tail of one loop iteration: the timerfd branch, then done()
EndBatch(expired, e, batch) ==
    LET s0 == [Globals EXCEPT !.calls = NoCalls, !.reply = NoReply]
        s1 == IF expired
              THEN [s0 EXCEPT !.timer_fd = "off",
                              !.done_actions = @ \cup {A_NTF_CLOSE}]
              ELSE s0
        s2 == done(s1, e)
    IN  /\ expired => timer_fd = "running"
        /\ s2.pending <= MaxPending
        /\ Commit(s2)
        /\ last' = [resolved |-> TRUE, actions |-> s1.done_actions,
                    timer_armed |-> s1.timer_armed, ntf |-> s1.ntf,
                    expired |-> expired,
                    path |-> DonePath(done_queue(s1, e)),
                    close_forced |-> batch.close_forced,
                    reopened |-> batch.reopened,
                    image_enabled |-> s1.ntf_image_enabled,
                    thumbnail |-> s1.thumbnail_ctx.thumbnail,
                    file |-> NoFile,
                    open |-> Presented(s2, last.open),
                    order |-> batch.order]
        /\ pc' = "poll"
        /\ UNCHANGED quiet

\* MPV_EVENT_NONE: dispatch_mpv_events returns 0
MpvEventNone(outcomes) ==
    /\ pc = "dispatch"
    /\ \E expired \in BOOLEAN, e \in outcomes : EndBatch(expired, e, last)

\* poll() returns with only the timerfd readable
TimerExpired(outcomes) ==
    /\ pc = "poll"
    /\ \E e \in outcomes : EndBatch(TRUE, e, NoLast)

\* the done: label of mpv_open_cplugin
\* why: what ended the loop, kept in last.path
Teardown(e, why) ==
    LET s1 == ntf_uninit(thumbnail_ctx_destroy(
                  [Globals EXCEPT !.calls = NoCalls, !.reply = NoReply]), e)
    IN  /\ Commit(s1)
        /\ last' = [NoLast EXCEPT !.path = why,
                                  !.open = Presented(s1, last.open)]
        /\ pc' = "exit"
        /\ UNCHANGED quiet

\* MPV_EVENT_SHUTDOWN: dispatch_mpv_events returns -1
MpvEventShutdown(outcomes) ==
    /\ pc = "dispatch"
    /\ \E e \in outcomes : Teardown(e, "shutdown")

\* poll() fails, or reports an error or hangup on a descriptor
PollError(outcomes) ==
    /\ pc = "poll"
    /\ ~quiet
    /\ \E e \in outcomes : Teardown(e, "poll")

\* poll() returned with the wakeup pipe readable and an error or hangup on
\* the timerfd: the events are dispatched and the loop ends before done()
TimerfdError(outcomes) ==
    /\ pc = "dispatch"
    /\ \E e \in outcomes : Teardown(e, "poll")

\* the playback engine has nothing more to send
EngineQuiet ==
    /\ pc = "poll"
    /\ ~quiet
    /\ quiet' = TRUE
    /\ UNCHANGED <<pc, done_actions, ntf_image_enabled, rewrite_summary,
                   rewrite_body, metadata_avail, mouse_hovered,
                   screenshot_in_progress, force_open, thumbnail_ctx, opts,
                   opts_base, props, timer_armed, ntf, ntf_image, timer_fd,
                   pending, script_opts, percent_pos_rounded, calls, reply,
                   last>>

(***************************************************************************)
(* Spec: the decision engine.  The configuration file turns thumbnails     *)
(* off, so that no screenshot is requested; the engine sends seeks, the    *)
(* three client messages, and changes of the properties that decide        *)
(* focus, the data gate and the text; libnotify may fail every call.       *)
(***************************************************************************)
DecisionFiles == {[send_thumbnail |-> "no"]}

DecisionEvents ==
    {<<P_FOCUSED, Flag(1)>>, <<P_FOCUSED, Flag(0)>>,
     <<P_MOUSE_POS, Hover(1)>>, <<P_MOUSE_POS, Hover(0)>>,
     <<P_OPTIONS_SCRIPT_OPTS, ScriptOpts(<<>>)>>,
     <<P_OPTIONS_SCRIPT_OPTS, ScriptOpts([focus_manual |-> Str("yes")])>>,
     <<P_METADATA, Node(MPV_FORMAT_NODE, NodeMap(<<>>))>>,
     <<P_METADATA, Unavailable>>,
     <<P_TIME_POS, Node(MPV_FORMAT_INT64, 1)>>,
     <<P_TIME_POS, Unavailable>>,
     <<P_IDLE_ACTIVE, Flag(1)>>, <<P_IDLE_ACTIVE, Flag(0)>>,
     <<P_VOLUME, Node(MPV_FORMAT_INT64, 0)>>}

DecisionOutcomes ==
    [show_ok : BOOLEAN, close_ok : {TRUE}, init_ok : BOOLEAN, cmd_ok : {TRUE}]

Init == Startup(DecisionFiles, BOOLEAN)

Next ==
    \/ PollWakeup
    \/ MpvEventSeek
    \/ MpvEventClientMessage({"close", "open", "reload-config"}, DecisionFiles)
    \/ MpvEventPropertyChange(DecisionEvents)
    \/ MpvEventNone(DecisionOutcomes)
    \/ MpvEventShutdown(DecisionOutcomes)
    \/ TimerExpired(DecisionOutcomes)
    \/ PollError(DecisionOutcomes)
    \/ TimerfdError(DecisionOutcomes)

Spec == Init /\ [][Next]_vars

(***************************************************************************)
(* SpecShot: the thumbnail path.  No configuration file, so thumbnails are *)
(* on; a notification exists and every show succeeds; the engine sends     *)
(* seeks, video reconfigurations, the properties that enable the image and *)
(* open the data gate, and the replies to the screenshot commands.         *)
(***************************************************************************)
ShotFiles == {<<>>}

ShotEvents ==
    {<<P_BRIGHTNESS, Node(MPV_FORMAT_INT64, 0)>>,
     <<P_METADATA, Node(MPV_FORMAT_NODE, NodeMap(<<>>))>>,
     <<P_METADATA, Unavailable>>,
     <<P_TIME_POS, Node(MPV_FORMAT_INT64, 1)>>,
     <<P_VID, Node(MPV_FORMAT_INT64, 1)>>,
     <<P_VID, Unavailable>>}

ShotResults == {NoFrame, Frame(128, 64, 512), Frame(64, 64, 256)}

ShotFails == {"none", "malloc"}

ShotOutcomes ==
    [show_ok : {TRUE}, close_ok : {TRUE}, init_ok : {TRUE}, cmd_ok : BOOLEAN]

InitShot == Startup(ShotFiles, {TRUE})

NextShot ==
    \/ PollWakeup
    \/ MpvEventVideoReconfig
    \/ MpvEventSeek
    \/ MpvEventCommandReply(ShotResults, ShotFails)
    \/ MpvEventClientMessage({"close", "open"}, ShotFiles)
    \/ MpvEventPropertyChange(ShotEvents)
    \/ MpvEventNone(ShotOutcomes)
    \/ MpvEventShutdown(ShotOutcomes)
    \/ TimerExpired(ShotOutcomes)
    \/ PollError(ShotOutcomes)
    \/ TimerfdError(ShotOutcomes)

SpecShot == InitShot /\ [][NextShot]_vars

(***************************************************************************)
(* SpecThumb: the thumbnail context.  Thumbnails are on and a notification *)
(* exists; video reconfigurations request screenshots, the replies carry   *)
(* malformed results and frames of several sizes, every allocation may     *)
(* fail, and script-opts turns scaling off and changes the thumbnail size. *)
(* vid and metadata switch the image support off and on.                   *)
(***************************************************************************)
ThumbEvents ==
    {<<P_VID, Node(MPV_FORMAT_INT64, 1)>>,
     <<P_VID, Unavailable>>,
     <<P_METADATA, Node(MPV_FORMAT_NODE, NodeMap(<<>>))>>,
     <<P_OPTIONS_SCRIPT_OPTS, ScriptOpts(<<>>)>>,
     <<P_OPTIONS_SCRIPT_OPTS, ScriptOpts([disable_scaling |-> Str("yes")])>>,
     <<P_OPTIONS_SCRIPT_OPTS, ScriptOpts([thumbnail_size |-> Str("32")])>>}

ThumbMalformed == {NoFrame, NoData(64, 64, 256), Frame(0, 64, 256)}

ThumbFrames ==
    {Frame(64, 64, 256), Frame(64, 64, 512), Frame(49, 49, 196),
     Frame(100, 67, 400), Frame(1920, 1080, 7680),
     Frame(8192, 8192, 32768), Frame(32776, 32767, 131104)}

ThumbFails == {"none", "sws", "malloc", "pixbuf", "wide"}

ThumbOutcomes ==
    [show_ok : {TRUE}, close_ok : {TRUE}, init_ok : {TRUE}, cmd_ok : {TRUE}]

NextThumb ==
    \/ PollWakeup
    \/ MpvEventVideoReconfig
    \/ MpvEventCommandReply(ThumbMalformed \cup ThumbFrames, ThumbFails)
    \/ MpvEventPropertyChange(ThumbEvents)
    \/ MpvEventNone(ThumbOutcomes)

SpecThumb == InitShot /\ [][NextThumb]_vars

(***************************************************************************)
(* SpecRebuild: the thumbnail options.  Thumbnails are on; script-opts and *)
(* reload-config change the thumbnail size, the scaling algorithm and the  *)
(* scaling switch while screenshot requests are in flight, and the replies *)
(* carry frames of two sizes.  Some overrides and one configuration file   *)
(* carry a value set_opt refuses next to one it accepts.                   *)
(***************************************************************************)
RebuildEvents ==
    {<<P_VID, Node(MPV_FORMAT_INT64, 1)>>,
     <<P_METADATA, Node(MPV_FORMAT_NODE, NodeMap(<<>>))>>,
     <<P_OPTIONS_SCRIPT_OPTS, ScriptOpts(<<>>)>>,
     <<P_OPTIONS_SCRIPT_OPTS, ScriptOpts([disable_scaling |-> Str("yes")])>>,
     <<P_OPTIONS_SCRIPT_OPTS, ScriptOpts([thumbnail_size |-> Str("32")])>>,
     <<P_OPTIONS_SCRIPT_OPTS,
       ScriptOpts([thumbnail_scaling |-> Str("bilinear")])>>,
     <<P_OPTIONS_SCRIPT_OPTS,
       ScriptOpts([thumbnail_size |-> Str("0"),
                   thumbnail_scaling |-> Str("bilinear")])>>,
     <<P_OPTIONS_SCRIPT_OPTS,
       ScriptOpts([thumbnail_size |-> Str("32x"),
                   disable_scaling |-> Str("yes")])>>,
     <<P_OPTIONS_SCRIPT_OPTS,
       ScriptOpts([disable_scaling |-> Str("true"),
                   thumbnail_size |-> Str("32")])>>}

RebuildFiles ==
    {<<>>, [thumbnail_size |-> "10"],
     [thumbnail_size |-> "-1", disable_scaling |-> "yes"]}

RebuildFrames == {Frame(64, 64, 256), Frame(100, 67, 400)}

NextRebuild ==
    \/ PollWakeup
    \/ MpvEventVideoReconfig
    \/ MpvEventCommandReply(RebuildFrames, {"none"})
    \/ MpvEventClientMessage({"reload-config"}, RebuildFiles)
    \/ MpvEventPropertyChange(RebuildEvents)
    \/ MpvEventNone(ThumbOutcomes)

SpecRebuild == InitShot /\ [][NextRebuild]_vars

(***************************************************************************)
(* SpecRefresh: the texts of the notification.  Thumbnails are off; the    *)
(* engine sends a title (part of the summary), a position (part of the     *)
(* body), metadata (part of both) and seeks (part of neither), script-opts *)
(* turns perfdata on and off, and the service may refuse every show and    *)
(* every new session.                                                      *)
(***************************************************************************)
RefreshEvents ==
    {<<P_MEDIA_TITLE, Str("a")>>,
     <<P_TIME_POS, Node(MPV_FORMAT_INT64, 1)>>,
     <<P_METADATA, Node(MPV_FORMAT_NODE, NodeMap(<<>>))>>,
     <<P_OPTIONS_SCRIPT_OPTS, ScriptOpts(<<>>)>>,
     <<P_OPTIONS_SCRIPT_OPTS, ScriptOpts([perfdata |-> Str("yes")])>>}

RefreshOutcomes ==
    [show_ok : BOOLEAN, close_ok : {TRUE}, init_ok : BOOLEAN, cmd_ok : {TRUE}]

NextRefresh ==
    \/ PollWakeup
    \/ MpvEventSeek
    \/ MpvEventPropertyChange(RefreshEvents)
    \/ MpvEventNone(RefreshOutcomes)
    \/ TimerExpired(RefreshOutcomes)

SpecRefresh == Init /\ [][NextRefresh]_vars

(***************************************************************************)
(* SpecTrigger: the properties that trigger on a true value only.  The     *)
(* focus signal and eof-reached turn true, false and unavailable while the *)
(* engine sends what makes the data ready; the service accepts every call. *)
(***************************************************************************)
TriggerEvents ==
    {<<P_FOCUSED, Flag(1)>>, <<P_FOCUSED, Flag(0)>>,
     <<P_FOCUSED, Unavailable>>,
     <<P_EOF_REACHED, Flag(1)>>, <<P_EOF_REACHED, Flag(0)>>,
     <<P_EOF_REACHED, Unavailable>>,
     <<P_METADATA, Node(MPV_FORMAT_NODE, NodeMap(<<>>))>>,
     <<P_TIME_POS, Node(MPV_FORMAT_INT64, 1)>>}

TriggerOutcomes ==
    [show_ok : {TRUE}, close_ok : {TRUE}, init_ok : {TRUE}, cmd_ok : {TRUE}]

NextTrigger ==
    \/ PollWakeup
    \/ MpvEventPropertyChange(TriggerEvents)
    \/ MpvEventNone(TriggerOutcomes)
    \/ TimerExpired(TriggerOutcomes)

SpecTrigger == Init /\ [][NextTrigger]_vars

(***************************************************************************)
(* SpecDisabled: replies while the image is off.  The video track, the     *)
(* idle state and send_thumbnail switch the image support off and on while *)
(* screenshot requests are in flight; the replies carry a frame or none.   *)
(***************************************************************************)
DisabledEvents ==
    {<<P_VID, Node(MPV_FORMAT_INT64, 1)>>, <<P_VID, Unavailable>>,
     <<P_IDLE_ACTIVE, Flag(1)>>, <<P_IDLE_ACTIVE, Flag(0)>>,
     <<P_METADATA, Node(MPV_FORMAT_NODE, NodeMap(<<>>))>>,
     <<P_TIME_POS, Node(MPV_FORMAT_INT64, 1)>>,
     <<P_OPTIONS_SCRIPT_OPTS, ScriptOpts(<<>>)>>,
     <<P_OPTIONS_SCRIPT_OPTS, ScriptOpts([send_thumbnail |-> Str("no")])>>}

DisabledResults == {NoFrame, Frame(64, 64, 256)}

NextDisabled ==
    \/ PollWakeup
    \/ MpvEventVideoReconfig
    \/ MpvEventCommandReply(DisabledResults, {"none"})
    \/ MpvEventPropertyChange(DisabledEvents)
    \/ MpvEventNone(ThumbOutcomes)

SpecDisabled == InitShot /\ [][NextDisabled]_vars

(***************************************************************************)
(* SpecHandle: the image of the notification.  Contexts are built for      *)
(* frames of two sizes, with a pixbuf that may fail, and torn down when    *)
(* the video track goes away, while the service may refuse every show and  *)
(* every new session, so that notification objects go and come.            *)
(***************************************************************************)
HandleEvents ==
    {<<P_VID, Node(MPV_FORMAT_INT64, 1)>>, <<P_VID, Unavailable>>,
     <<P_METADATA, Node(MPV_FORMAT_NODE, NodeMap(<<>>))>>,
     <<P_TIME_POS, Node(MPV_FORMAT_INT64, 1)>>}

HandleFrames == {Frame(64, 64, 256), Frame(100, 67, 400)}

HandleOutcomes ==
    [show_ok : BOOLEAN, close_ok : {TRUE}, init_ok : BOOLEAN, cmd_ok : {TRUE}]

NextHandle ==
    \/ PollWakeup
    \/ MpvEventVideoReconfig
    \/ MpvEventCommandReply(HandleFrames, {"none", "pixbuf"})
    \/ MpvEventPropertyChange(HandleEvents)
    \/ MpvEventNone(HandleOutcomes)

SpecHandle == InitShot /\ [][NextHandle]_vars

(***************************************************************************)
(* SpecImage: the image support switch.  The engine changes the five       *)
(* inputs of ntf_check_image: idle-active, vid, lavfi-complex, metadata    *)
(* and, through script-opts, the send_thumbnail option.                    *)
(***************************************************************************)
ImageEvents ==
    {<<P_IDLE_ACTIVE, Flag(1)>>, <<P_IDLE_ACTIVE, Flag(0)>>,
     <<P_VID, Node(MPV_FORMAT_INT64, 1)>>, <<P_VID, Unavailable>>,
     <<P_LAVFI_COMPLEX, Str("[aid1] asplit [ao] [v]")>>,
     <<P_LAVFI_COMPLEX, Str("")>>,
     <<P_METADATA, Node(MPV_FORMAT_NODE, NodeMap(<<>>))>>,
     <<P_METADATA, Unavailable>>,
     <<P_OPTIONS_SCRIPT_OPTS, ScriptOpts(<<>>)>>,
     <<P_OPTIONS_SCRIPT_OPTS, ScriptOpts([send_thumbnail |-> Str("no")])>>}

NextImage ==
    \/ PollWakeup
    \/ MpvEventPropertyChange(ImageEvents)
    \/ MpvEventNone(ThumbOutcomes)

SpecImage == InitShot /\ [][NextImage]_vars

(***************************************************************************)
(* SpecOpts: the option diff.  The option sets hold every slot of the      *)
(* enum; they are the defaults with one slot changed, a string slot being  *)
(* empty, another string, or null after a failed strdup.  The program is   *)
(* inside a batch with a notification and a thumbnail context built for    *)
(* the options in force; every step replaces the options by another set    *)
(* and runs opts_run_changed from the previous set to the new one.         *)
(***************************************************************************)
opts_defaults_all ==
    [i \in O_END |->
        CASE i \in opts_key -> opts_defaults[i]
          [] i \in {O_NTF_APP_ICON, O_NTF_CATEGORY} -> "mpv"
          [] i = O_SCREENSHOT_FLAGS -> "video"
          [] i = O_NTF_URGENCY -> 0
          [] i \in {O_SEND_PROGRESS, O_SEND_SUB_TEXT} -> TRUE]

\* values a slot takes besides its default
OptValues(i) ==
    CASE i \in opts_strings -> {NULL, "", "a"}
      [] i = O_EXPIRE_TIMEOUT -> {0}
      [] i = O_THUMBNAIL_SIZE -> {32}
      [] i = O_NTF_URGENCY -> {1}
      [] i = O_THUMBNAIL_SCALING -> {SWS_BILINEAR}
      [] OTHER -> {~opts_defaults_all[i]}

OptSnapshots ==
    {opts_defaults_all}
    \cup UNION {{[opts_defaults_all EXCEPT ![i] = v] : v \in OptValues(i)} :
                   i \in O_END}

StrcmpNull == {"fault", "equal", "differ"}

\* the context thumbnail_ctx_maybe_new builds for a 1920x1080 frame under
\* the options o
FrameCtx(o) ==
    LET scaling == ~o[O_DISABLE_SCALING]
        dst_w == IF scaling
                 THEN MAX(1, ScaledDim(1920, 1920, 1080, o[O_THUMBNAIL_SIZE]))
                 ELSE 1920
        dst_h == IF scaling
                 THEN MAX(1, ScaledDim(1080, 1920, 1080, o[O_THUMBNAIL_SIZE]))
                 ELSE 1080
    IN  [thumbnail |-> TRUE, src_w |-> 1920, src_stride |-> 7680,
         src_h |-> 1080, dst_w |-> dst_w,
         dst_stride |-> IF scaling THEN dst_w * 4 ELSE 7680,
         dst_h |-> dst_h, pixbuf |-> TRUE, sws |-> scaling,
         sws_flags |-> IF scaling THEN o[O_THUMBNAIL_SCALING] ELSE 0]

InitOpts ==
    /\ pc = "dispatch"
    /\ done_actions = {}
    /\ ntf_image_enabled = TRUE
    /\ rewrite_summary = FALSE
    /\ rewrite_body = FALSE
    /\ metadata_avail = TRUE
    /\ mouse_hovered = FALSE
    /\ screenshot_in_progress = FALSE
    /\ force_open = FALSE
    /\ opts \in OptSnapshots
    /\ opts_base = opts
    /\ thumbnail_ctx = FrameCtx(opts)
    /\ props = [p \in SavedProps |->
                   IF p = P_VID THEN Node(MPV_FORMAT_INT64, 1)
                   ELSE ZeroNode(p)]
    /\ timer_armed = FALSE
    /\ ntf = TRUE
    /\ ntf_image = TRUE
    /\ timer_fd = "off"
    /\ pending = 0
    /\ script_opts = NodeMap(<<>>)
    /\ percent_pos_rounded = 0
    /\ calls = NoCalls
    /\ reply = NoReply
    /\ last = NoLast
    /\ quiet = FALSE

\* some string slot is null in both sets
NullPair(before, after) ==
    \E i \in opts_strings : before[i] = NULL /\ after[i] = NULL

\* a change of script-opts that leaves `after` in opts: opts_previous is the
\* set before it, and strcmp does ub when both of its arguments are null
OptsChange(snapshots, ubs) ==
    /\ pc = "dispatch"
    /\ \E after \in snapshots :
       \E ub \in IF NullPair(opts, after) THEN ubs ELSE {"equal"} :
          LET s1 == opts_run_changed(
                        [Globals EXCEPT !.opts = after, !.calls = NoCalls],
                        opts, after, ub)
          IN  /\ Commit(s1)
              /\ pc' = IF s1.calls.fault > 0 THEN "fault" ELSE pc
              /\ UNCHANGED <<last, quiet>>

NextOpts == OptsChange(OptSnapshots, StrcmpNull)

SpecOpts == InitOpts /\ [][NextOpts]_vars

(***************************************************************************)
(* SpecService: the notification service.  As Spec, with fewer properties  *)
(* changing and a service that may refuse every show, every close and      *)
(* every new session.                                                      *)
(***************************************************************************)
ServiceEvents ==
    {<<P_FOCUSED, Flag(1)>>, <<P_FOCUSED, Flag(0)>>,
     <<P_METADATA, Node(MPV_FORMAT_NODE, NodeMap(<<>>))>>,
     <<P_TIME_POS, Node(MPV_FORMAT_INT64, 1)>>}

ServiceOutcomes ==
    [show_ok : BOOLEAN, close_ok : BOOLEAN, init_ok : BOOLEAN, cmd_ok : {TRUE}]

NextService ==
    \/ PollWakeup
    \/ MpvEventSeek
    \/ MpvEventClientMessage({"close", "open"}, DecisionFiles)
    \/ MpvEventPropertyChange(ServiceEvents)
    \/ MpvEventNone(ServiceOutcomes)
    \/ MpvEventShutdown(ServiceOutcomes)
    \/ TimerExpired(ServiceOutcomes)
    \/ PollError(ServiceOutcomes)
    \/ TimerfdError(ServiceOutcomes)

SpecService == Init /\ [][NextService]_vars

(***************************************************************************)
(* SpecLoop: the ways out of the event loop.  Thumbnails are on; the       *)
(* engine sends seeks, video reconfigurations, what enables the image, and *)
(* replies that are malformed or frames whose context may fail to build;   *)
(* the service and the screenshot command may fail every call; the engine  *)
(* shuts down, and poll() fails or reports an error on a descriptor.       *)
(***************************************************************************)
LoopEvents ==
    {<<P_VID, Node(MPV_FORMAT_INT64, 1)>>,
     <<P_METADATA, Node(MPV_FORMAT_NODE, NodeMap(<<>>))>>,
     <<P_TIME_POS, Node(MPV_FORMAT_INT64, 1)>>}

LoopResults == {NoFrame, Frame(64, 64, 256)}

LoopFails == {"none", "sws", "malloc", "pixbuf"}

NextLoop ==
    \/ PollWakeup
    \/ MpvEventVideoReconfig
    \/ MpvEventSeek
    \/ MpvEventCommandReply(LoopResults, LoopFails)
    \/ MpvEventPropertyChange(LoopEvents)
    \/ MpvEventNone(Env)
    \/ MpvEventShutdown(Env)
    \/ TimerExpired(Env)
    \/ PollError(Env)
    \/ TimerfdError(Env)

SpecLoop == InitShot /\ [][NextLoop]_vars

(***************************************************************************)
(* LiveSpec: the expire timer.  The engine sends what arms the timer and   *)
(* what keeps it from closing, then falls silent (EngineQuiet).  A running *)
(* timer makes the timerfd readable after its timeout and poll() has no    *)
(* timeout of its own, so the expiry branch is taken once it stays         *)
(* enabled: weak fairness on TimerExpired.                                 *)
(***************************************************************************)
LiveEvents ==
    {<<P_FOCUSED, Flag(1)>>, <<P_FOCUSED, Flag(0)>>,
     <<P_OPTIONS_SCRIPT_OPTS, ScriptOpts(<<>>)>>,
     <<P_OPTIONS_SCRIPT_OPTS, ScriptOpts([expire_timeout |-> Str("0")])>>,
     <<P_METADATA, Node(MPV_FORMAT_NODE, NodeMap(<<>>))>>,
     <<P_METADATA, Unavailable>>,
     <<P_TIME_POS, Node(MPV_FORMAT_INT64, 1)>>}

NextLive ==
    \/ PollWakeup
    \/ MpvEventSeek
    \/ MpvEventClientMessage({"close", "open"}, DecisionFiles)
    \/ MpvEventPropertyChange(LiveEvents)
    \/ MpvEventNone(DecisionOutcomes)
    \/ MpvEventShutdown(DecisionOutcomes)
    \/ TimerExpired(DecisionOutcomes)
    \/ PollError(DecisionOutcomes)
    \/ TimerfdError(DecisionOutcomes)
    \/ EngineQuiet

LiveSpec ==
    /\ Init
    /\ [][NextLive]_vars
    /\ WF_vars(TimerExpired(DecisionOutcomes))

(***************************************************************************)
(* SpecForever: the expire timer under expire_timeout=0.  The events of    *)
(* LiveSpec, and the pointer and a property that only updates.             *)
(***************************************************************************)
ForeverEvents ==
    LiveEvents \cup
    {<<P_MOUSE_POS, Hover(1)>>, <<P_MOUSE_POS, Hover(0)>>,
     <<P_VOLUME, Node(MPV_FORMAT_INT64, 0)>>}

NextForever ==
    \/ PollWakeup
    \/ MpvEventClientMessage({"close", "open"}, DecisionFiles)
    \/ MpvEventPropertyChange(ForeverEvents)
    \/ MpvEventNone(DecisionOutcomes)
    \/ TimerExpired(DecisionOutcomes)

SpecForever == Init /\ [][NextForever]_vars

(***************************************************************************)
(* SpecQuiesce: the retry of ntf_reinit.  Observing a property again makes *)
(* the engine send its initial change event, so the batch after a          *)
(* re-creation dispatches one change per observed property, each with the  *)
(* value the engine holds.  The engine sends what makes a batch show,      *)
(* then nothing of its own (EngineQuiet).  The initial changes make the    *)
(* wakeup pipe readable and dispatch_mpv_events runs until MPV_EVENT_NONE: *)
(* weak fairness on both.                                                  *)
(***************************************************************************)
\* the observed properties, in the order ntf_reinit observes them
ObservedOrder ==
    <<P_BRIGHTNESS, P_CURRENT_TRACKS__VIDEO__IMAGE, P_EOF_REACHED, P_FOCUSED,
      P_IDLE_ACTIVE, P_LAVFI_COMPLEX, P_MEDIA_TITLE, P_METADATA, P_MOUSE_POS,
      P_OPTIONS_SCRIPT_OPTS, P_PAUSE, P_PERCENT_POS, P_TIME_POS,
      P_USER_DATA__DETECT_IMAGE__DETECTED, P_VID, P_VOLUME>>

\* the value the engine holds for a property: the one it sent last
CurrentValue(s, p) ==
    CASE p \in SavedProps -> s.props[p]
      [] p = P_METADATA ->
            IF s.metadata_avail THEN Node(MPV_FORMAT_NODE, NodeMap(<<>>))
            ELSE Unavailable
      [] p = P_MOUSE_POS -> Hover(IF s.mouse_hovered THEN 1 ELSE 0)
      [] p = P_OPTIONS_SCRIPT_OPTS -> Node(MPV_FORMAT_NODE, s.script_opts)
      [] OTHER -> Unavailable

\* the state after the initial changes of ObservedOrder[i] and of those
\* after it (the set binds each intermediate state once)
RECURSIVE InitialChanges(_, _)
InitialChanges(s, i) ==
    IF i > Len(ObservedOrder) THEN s
    ELSE CHOOSE r \in
             {InitialChanges(t, i + 1) :
                  t \in {on_property_change(
                             s, ObservedOrder[i],
                             CurrentValue(s, ObservedOrder[i]))}} : TRUE

\* poll() returns with the initial changes of the properties the previous
\* batch observed again, and dispatch_mpv_events handles them
MpvEventReobserved ==
    /\ pc = "poll"
    /\ calls.reobserve > 0
    /\ pc' = "dispatch"
    /\ Commit(InitialChanges([Globals EXCEPT !.calls = NoCalls], 1))
    /\ last' = [NoLast EXCEPT !.open = last.open]
    /\ UNCHANGED quiet

QuiesceEvents ==
    {<<P_FOCUSED, Flag(1)>>, <<P_FOCUSED, Flag(0)>>,
     <<P_METADATA, Node(MPV_FORMAT_NODE, NodeMap(<<>>))>>,
     <<P_METADATA, Unavailable>>,
     <<P_TIME_POS, Node(MPV_FORMAT_INT64, 1)>>}

NextQuiesce ==
    \/ calls.reobserve = 0 /\ PollWakeup
    \/ ~quiet /\ MpvEventPropertyChange(QuiesceEvents)
    \/ MpvEventNone(DecisionOutcomes)
    \/ TimerExpired(DecisionOutcomes)
    \/ EngineQuiet
    \/ MpvEventReobserved

SpecQuiesce ==
    /\ Init
    /\ [][NextQuiesce]_vars
    /\ WF_vars(MpvEventReobserved)
    /\ WF_vars(MpvEventNone(DecisionOutcomes))

(***************************************************************************)
(* SpecPercent: the progress.  The engine moves the position within a      *)
(* percent and across one, to 0.0 and to unavailable, and switches the     *)
(* video track between a still image and a moving one.                     *)
(***************************************************************************)
PercentEvents ==
    {<<P_PERCENT_POS, Double(0)>>, <<P_PERCENT_POS, Double(4)>>,
     <<P_PERCENT_POS, Double(5)>>, <<P_PERCENT_POS, Double(14)>>,
     <<P_PERCENT_POS, Double(15)>>, <<P_PERCENT_POS, Unavailable>>,
     <<P_CURRENT_TRACKS__VIDEO__IMAGE, Flag(1)>>,
     <<P_CURRENT_TRACKS__VIDEO__IMAGE, Flag(0)>>,
     <<P_METADATA, Node(MPV_FORMAT_NODE, NodeMap(<<>>))>>,
     <<P_TIME_POS, Node(MPV_FORMAT_INT64, 1)>>}

NextPercent ==
    \/ PollWakeup
    \/ MpvEventPropertyChange(PercentEvents)
    \/ MpvEventNone(TriggerOutcomes)

SpecPercent == Init /\ [][NextPercent]_vars

(***************************************************************************)
(* SpecText: what the texts are composed from.  The engine changes the     *)
(* properties and the option that write_body reads, and the metadata, that *)
(* write_summary reads.                                                    *)
(***************************************************************************)
TextEvents ==
    {<<P_USER_DATA__DETECT_IMAGE__DETECTED, Flag(1)>>,
     <<P_USER_DATA__DETECT_IMAGE__DETECTED, Flag(0)>>,
     <<P_EOF_REACHED, Flag(1)>>, <<P_EOF_REACHED, Flag(0)>>,
     <<P_IDLE_ACTIVE, Flag(1)>>, <<P_IDLE_ACTIVE, Flag(0)>>,
     <<P_TIME_POS, Node(MPV_FORMAT_INT64, 1)>>, <<P_TIME_POS, Unavailable>>,
     <<P_PERCENT_POS, Double(5)>>, <<P_PERCENT_POS, Double(14)>>,
     <<P_PERCENT_POS, Unavailable>>,
     <<P_METADATA, Node(MPV_FORMAT_NODE, NodeMap(<<>>))>>,
     <<P_METADATA, Unavailable>>,
     <<P_OPTIONS_SCRIPT_OPTS, ScriptOpts(<<>>)>>,
     <<P_OPTIONS_SCRIPT_OPTS, ScriptOpts([perfdata |-> Str("yes")])>>}

NextText ==
    \/ PollWakeup
    \/ MpvEventPropertyChange(TextEvents)
    \/ MpvEventNone(TriggerOutcomes)

SpecText == Init /\ [][NextText]_vars

(***************************************************************************)
(* Properties of done().  After a batch, last holds what done() started    *)
(* from and calls what it called; done() changes neither force_open nor    *)
(* what decides focus and the data gate, so these are read from the state. *)
(***************************************************************************)
Resolved == pc = "poll" /\ last.resolved

\* the focus signal, the pointer or the manual-focus option says focused
Focused ==
    \/ op_true(Globals, P_FOCUSED)
    \/ mouse_hovered
    \/ opts[O_FOCUS_MANUAL]

DataReady ==
    (metadata_avail /\ op_avail(Globals, P_TIME_POS))
    \/ op_true(Globals, P_IDLE_ACTIVE)

Eligible == (~Focused \/ force_open) /\ DataReady

\* ntf_close() reaches the service exactly when a notification object exists
ClosedOnce == calls.close = (IF last.ntf THEN 1 ELSE 0)

\* ntf_upd() shows the notification object, or creates one when there is none
Refreshed ==
    IF last.ntf THEN calls.show = 1
    ELSE calls.show = 0 /\ calls.reinit = 1

TimerRestarted ==
    /\ timer_armed
    /\ timer_fd = IF opts[O_EXPIRE_TIMEOUT] > 0 THEN "running" ELSE "off"

\* C1: with force_open unset at done(), A_NTF_CLOSE in done_actions makes
\* done() disarm the timer and close the notification without any update or
\* show, whatever else is set; without A_NTF_CLOSE, A_NTF_RST in an eligible
\* batch restarts the timer and refreshes, with or without A_NTF_UPD.
C1_ClosePrecedesResetPrecedesUpdate ==
    (Resolved /\ ~force_open) =>
        /\ A_NTF_CLOSE \in last.actions =>
              /\ last.path = "close"
              /\ ClosedOnce
              /\ ~timer_armed /\ timer_fd = "off"
              /\ calls.show = 0 /\ calls.update = 0 /\ calls.reinit = 0
        /\ (A_NTF_CLOSE \notin last.actions /\ A_NTF_RST \in last.actions
            /\ Eligible) =>
              /\ last.path = "rst"
              /\ TimerRestarted
              /\ Refreshed

C1_Witness ==
    /\ Resolved /\ ~force_open /\ Eligible
    /\ {A_NTF_CLOSE, A_NTF_RST, A_NTF_UPD} \subseteq last.actions
    /\ last.timer_armed /\ ~timer_armed
    /\ calls.close = 1 /\ calls.show = 0

\* C2: a done() that finds the player considered focused and force_open
\* unset calls neither update nor show, whatever done_actions holds.
C2_FocusedSuppressesShow ==
    (Resolved /\ Focused /\ ~force_open) =>
        calls.show = 0 /\ calls.update = 0 /\ calls.reinit = 0

C2_Witness ==
    /\ Resolved /\ ~force_open /\ DataReady
    /\ mouse_hovered /\ ~op_true(Globals, P_FOCUSED) /\ ~opts[O_FOCUS_MANUAL]
    /\ A_NTF_RST \in last.actions /\ A_NTF_CLOSE \notin last.actions
    /\ last.ntf /\ last.path = "ineligible" /\ calls.show = 0

\* C3 as stated: with force_open set, no done() issues a close call or
\* leaves a timer disarmed that was armed.
C3_NoCloseCallWhileForced ==
    (Resolved /\ force_open) =>
        calls.close = 0 /\ (last.timer_armed => timer_armed)

\* C3: with force_open set, done() never takes the A_NTF_CLOSE branch: a
\* timer that was armed stays armed, and the only close call is the one
\* ntf_uninit makes when ntf_upd re-creates the session after a failed show.
C3_ForceOpenSuppressesClose ==
    (Resolved /\ force_open) =>
        /\ last.path # "close"
        /\ last.timer_armed => timer_armed
        /\ calls.close <= calls.show_failed

C3_Witness ==
    /\ Resolved /\ force_open
    /\ last.expired /\ A_NTF_CLOSE \in last.actions
    /\ last.timer_armed /\ timer_armed /\ last.ntf /\ calls.close = 0

\* C4 as stated: a batch in which "close" arrived while force_open was set
\* accumulates A_NTF_CLOSE and its done() does not close the notification.
C4_CloseMessageSuppressed ==
    (Resolved /\ last.close_forced) =>
        /\ A_NTF_CLOSE \in last.actions
        /\ last.path # "close" /\ calls.close = 0

\* C4: "close" arriving while force_open is set accumulates A_NTF_CLOSE and
\* clears force_open, so that the done() of the batch disarms the timer and
\* closes the notification, unless an "open" arrived after it in the batch.
C4_CloseMessageClearsForceOpen ==
    (Resolved /\ last.close_forced) =>
        /\ A_NTF_CLOSE \in last.actions
        /\ ~last.reopened =>
              /\ ~force_open
              /\ last.path = "close"
              /\ ClosedOnce
              /\ ~timer_armed /\ timer_fd = "off"

C4_Witness ==
    /\ Resolved /\ last.close_forced /\ ~last.reopened
    /\ last.timer_armed /\ ~timer_armed
    /\ last.ntf /\ calls.close = 1 /\ ~force_open

\* C6 as stated: no done() issues more than one of show and close.
C6_OneLifecycleCall ==
    Resolved => calls.show + calls.close <= 1

\* C6: a done() issues at most one show and at most one close, and both
\* only when the show fails: the close is then the one ntf_uninit makes
\* before the session is created anew.
C6_ShowAndCloseOnlyOnFailedShow ==
    Resolved =>
        /\ calls.show <= 1 /\ calls.close <= 1
        /\ (calls.show = 1 /\ calls.close = 1) <=> calls.show_failed = 1
        /\ calls.show_failed = 1 => calls.reinit = 1

C6_Witness ==
    /\ Resolved /\ last.path = "rst"
    /\ calls.show = 1 /\ calls.show_failed = 1 /\ calls.close = 1
    /\ calls.reinit = 1

\* C7: after every done() done_actions is empty, whichever branch it took,
\* so a batch starts from the empty set; a done() whose batch accumulated
\* none of A_NTF_RST, A_NTF_UPD and A_NTF_CHECK_IMAGE shows nothing.
C7_ActionsClearedEveryBatch ==
    /\ pc = "poll" => done_actions = {}
    /\ (Resolved
        /\ last.actions \cap {A_NTF_RST, A_NTF_UPD, A_NTF_CHECK_IMAGE} = {})
       => (calls.show = 0 /\ calls.update = 0 /\ calls.reinit = 0)

C7_Witness ==
    /\ Resolved /\ last.path = "ineligible" /\ ~Focused
    /\ {A_NTF_RST, A_NTF_UPD} \subseteq last.actions
    /\ done_actions = {} /\ calls.show = 0

\* C8: once the engine is silent with the timer running (armed with a
\* positive expire_timeout) and force_open unset, the timer expires: that
\* wakeup adds A_NTF_CLOSE, its done() takes the close branch, closes the
\* notification object and leaves the timer disarmed.
C8_RunningTimerEventuallyCloses ==
    (quiet /\ pc = "poll" /\ timer_armed /\ timer_fd = "running"
     /\ ~force_open)
    ~> (/\ Resolved /\ last.expired
        /\ A_NTF_CLOSE \in last.actions /\ last.path = "close"
        /\ ClosedOnce
        /\ ~timer_armed /\ timer_fd = "off")

C8_Witness ==
    /\ Resolved /\ quiet /\ last.expired /\ ~force_open
    /\ opts[O_EXPIRE_TIMEOUT] > 0
    /\ last.timer_armed /\ ~timer_armed /\ timer_fd = "off"
    /\ last.ntf /\ calls.close = 1

\* C9 as stated: after a batch that processed a timer expiry, timer_armed
\* is false.
C9_ExpiryAlwaysDisarms ==
    (Resolved /\ last.expired) => ~timer_armed

\* C9: timer_armed is false at startup, and false after every done() that
\* finds A_NTF_CLOSE set (as after every timer expiry) with force_open
\* unset; with force_open set the flag is left as it was or set by a reset.
C9_DisarmedAtStartupAndAfterClose ==
    /\ (pc = "poll" /\ ~last.resolved) => (~timer_armed /\ timer_fd = "off")
    /\ (Resolved /\ A_NTF_CLOSE \in last.actions /\ ~force_open) =>
          (~timer_armed /\ timer_fd = "off")
    /\ (Resolved /\ last.expired) => A_NTF_CLOSE \in last.actions
    /\ (Resolved /\ last.expired /\ force_open /\ last.timer_armed) =>
          timer_armed

C9_Witness ==
    /\ Resolved /\ last.expired /\ ~force_open
    /\ last.timer_armed /\ ~timer_armed /\ timer_fd = "off"

\* C5 as stated: every done() sends at most one screenshot command.
C5_OneScreenshotPerResolve ==
    Resolved => calls.screenshot <= 1

\* C10 as stated: the reply to a screenshot command that a later command
\* superseded changes neither thumbnail_ctx nor done_actions.
C10_StaleReplyIgnored ==
    [][(pc = "dispatch" /\ pending >= 2 /\ pending' = pending - 1)
       => (thumbnail_ctx' = thumbnail_ctx /\ done_actions' = done_actions)]_vars

(***************************************************************************)
(* Properties of the thumbnail path.  A step with pc = "dispatch" that     *)
(* takes one from pending is the handling of a reply, and reply' is the    *)
(* reply it handled.                                                       *)
(***************************************************************************)
ReplyStep == pc = "dispatch" /\ pending' = pending - 1

Malformed(result) ==
    \/ result.format # MPV_FORMAT_NODE_MAP
    \/ ~result.data
    \/ result.w = 0 \/ result.h = 0 \/ result.stride = 0

\* C11: a reply whose result is no map, or lacks the data, or has a zero
\* width, height or stride leaves thumbnail_ctx and the notification image
\* as they were and adds nothing to done_actions, and the dispatch goes on.
C11_MalformedReplyDropped ==
    [][(ReplyStep /\ Malformed(reply'.result)) =>
          /\ thumbnail_ctx' = thumbnail_ctx
          /\ ntf_image' = ntf_image
          /\ done_actions' = done_actions
          /\ calls'.ctx_new = calls.ctx_new
          /\ pc' = "dispatch"]_vars

C11_Witness ==
    /\ pc = "dispatch" /\ ntf_image_enabled
    /\ reply.seen /\ reply.result.format = MPV_FORMAT_NODE_MAP
    /\ reply.result.w = 0
    /\ thumbnail_ctx.thumbnail /\ thumbnail_ctx.src_w = 64
    /\ A_NTF_UPD \notin done_actions

\* the five inputs of the image support switch
Idle == op_true(Globals, P_IDLE_ACTIVE)

VideoTrack == op_avail(Globals, P_VID)

ComposedFilter == op_true(Globals, P_LAVFI_COMPLEX)

\* C12: after a done() that found A_NTF_CHECK_IMAGE set, ntf_image_enabled
\* is false exactly when the player is idle, or send_thumbnail is off, or
\* there is no video track, no lavfi-complex, and it is not the case that
\* the player is not idle and has neither a video track nor metadata.
C12_ImageEnabledTable ==
    (Resolved /\ A_NTF_CHECK_IMAGE \in last.actions) =>
        (~ntf_image_enabled <=>
            \/ Idle
            \/ ~opts[O_SEND_THUMBNAIL]
            \/ /\ ~VideoTrack
               /\ ~ComposedFilter
               /\ ~(~Idle /\ ~VideoTrack /\ ~metadata_avail))

C12_Witness ==
    /\ Resolved /\ A_NTF_CHECK_IMAGE \in last.actions
    /\ ~Idle /\ opts[O_SEND_THUMBNAIL]
    /\ ~VideoTrack /\ ~ComposedFilter /\ ~metadata_avail
    /\ props[P_IDLE_ACTIVE].format = MPV_FORMAT_FLAG
    /\ ntf_image_enabled

\* no buffer, no scaling engine, no image handle, no notification image
TornDown ==
    /\ ~thumbnail_ctx.thumbnail /\ ~thumbnail_ctx.sws /\ ~thumbnail_ctx.pixbuf
    /\ ~ntf_image

\* C13: while ntf_image_enabled is false the context is torn down, and a
\* torn down context stays so, also across a done() that enables the image
\* again, until the reply to a screenshot command with a well-formed result
\* is handled with the image enabled.
C13_TornDownUntilNextFrame ==
    /\ [](~ntf_image_enabled => TornDown)
    /\ [][(TornDown /\ ~TornDown') =>
             (ReplyStep /\ ntf_image_enabled /\ ~Malformed(reply'.result))]_vars

C13_Witness ==
    /\ Resolved /\ A_NTF_CHECK_IMAGE \in last.actions
    /\ ~last.image_enabled /\ ntf_image_enabled
    /\ VideoTrack /\ metadata_avail
    /\ TornDown /\ ntf

\* the reply handled by this step is a frame that reaches
\* thumbnail_ctx_maybe_new
FrameStep == ReplyStep /\ ntf_image_enabled /\ ~Malformed(reply'.result)

SameSize ==
    /\ reply'.result.w = thumbnail_ctx.src_w
    /\ reply'.result.h = thumbnail_ctx.src_h

\* C14 as stated: a frame builds the context anew exactly when its width
\* or height differs from the ones the context was built for, also when
\* the row stride differs.
C14_KeyedBySizeOnly ==
    [][FrameStep =>
          calls'.ctx_new = calls.ctx_new + (IF SameSize THEN 0 ELSE 1)]_vars

\* C14: a frame keeps the context, updating src_stride only, exactly when
\* its width and height are the ones the context holds and, with scaling
\* disabled, its row stride too; any other frame builds the context anew,
\* once.
C14_KeyedBySizeAndUnscaledStride ==
    [][FrameStep =>
          IF SameSize /\ (opts[O_DISABLE_SCALING] =>
                             reply'.result.stride = thumbnail_ctx.src_stride)
          THEN /\ calls'.ctx_new = calls.ctx_new
               /\ thumbnail_ctx' =
                      [thumbnail_ctx EXCEPT !.src_stride = reply'.result.stride]
          ELSE calls'.ctx_new = calls.ctx_new + 1]_vars

C14_Witness ==
    /\ pc = "dispatch" /\ ntf_image_enabled /\ ~opts[O_DISABLE_SCALING]
    /\ reply.seen /\ reply.result = Frame(64, 64, 512)
    /\ calls.ctx_new = 0
    /\ thumbnail_ctx.thumbnail /\ thumbnail_ctx.src_w = 64
    /\ thumbnail_ctx.src_stride = 512
    /\ A_NTF_UPD \in done_actions

\* a / b rounded to the nearest integer, for a >= 0 and b > 0
Round(a, b) == (2 * a + b) \div (2 * b)

\* C15 as stated: a context that holds a buffer has, with scaling enabled,
\* dst_w = max(1, round(src_w * f)) and dst_h = max(1, round(src_h * f)) for
\* f = thumbnail_size / max(src_w, src_h), and dst_stride = 4 * dst_w; with
\* scaling disabled its destination width, height and stride are the
\* source's.
C15_RoundedScaling ==
    thumbnail_ctx.thumbnail =>
        LET c == thumbnail_ctx
            m == MAX(c.src_w, c.src_h)
            size == opts[O_THUMBNAIL_SIZE]
        IN  IF opts[O_DISABLE_SCALING]
            THEN /\ c.dst_w = c.src_w /\ c.dst_h = c.src_h
                 /\ c.dst_stride = c.src_stride
            ELSE /\ c.dst_w = MAX(1, Round(c.src_w * size, m))
                 /\ c.dst_h = MAX(1, Round(c.src_h * size, m))
                 /\ c.dst_stride = 4 * c.dst_w

\* C16 as stated: whenever the context holds an output buffer, the true
\* product of dst_stride and dst_h is at most MAX_IMAGE_SIZE.
C16_BufferWithinLimit ==
    thumbnail_ctx.thumbnail =>
        ~TooLarge(Product(thumbnail_ctx.dst_stride, thumbnail_ctx.dst_h))

\* the last reply of this batch was a frame that reached
\* thumbnail_ctx_maybe_new and left no context behind, and neither the
\* options nor the context have changed since
ConstructionFailed ==
    /\ reply.seen /\ ~Malformed(reply.result)
    /\ ntf_image_enabled
    /\ ~reply.built /\ thumbnail_ctx = ZeroCtx
    /\ reply.opts = opts

\* C17 as stated: after the construction of the context failed for a source
\* size, a later reply with the same source size and unchanged options does
\* not set out to construct a context again.
C17_NoRetryAfterFailure ==
    [][(ConstructionFailed /\ FrameStep
        /\ reply'.result.w = reply.result.w
        /\ reply'.result.h = reply.result.h
        /\ reply'.result.stride = reply.result.stride)
       => calls'.ctx_new = calls.ctx_new]_vars

(***************************************************************************)
(* Properties of the option diff.  Under SpecOpts every step from          *)
(* pc = "dispatch" is one run of opts_run_changed from opts to opts', with *)
(* calls' counting what it called.                                         *)
(***************************************************************************)
\* the slots whose values differ between the two option sets: for a string
\* an absent and a present one, or two different contents
Differing == {i \in O_END : opts[i] # opts'[i]}

\* the done_action flags mapped to a slot
MappedFlags(i) ==
    CASE i \in {O_NTF_APP_ICON, O_NTF_CATEGORY, O_NTF_URGENCY,
                O_SEND_PROGRESS, O_SEND_SUB_TEXT, O_PERFDATA} -> {A_NTF_UPD}
      [] i = O_SEND_THUMBNAIL ->
            IF opts'[O_SEND_THUMBNAIL]
            THEN {A_NTF_CHECK_IMAGE, A_QUEUE_SHOT} ELSE {A_NTF_CHECK_IMAGE}
      [] i \in {O_THUMBNAIL_SIZE, O_SCREENSHOT_FLAGS, O_THUMBNAIL_SCALING,
                O_DISABLE_SCALING} -> {A_QUEUE_SHOT}
      [] i = O_FOCUS_MANUAL -> {A_NTF_RST}
      [] OTHER -> {}

Once(what, i) == calls'[what] = IF i \in Differing THEN 1 ELSE 0

\* the diff ran to its end with the effects of exactly the differing slots
ExactEffects ==
    /\ pc' = "dispatch"
    /\ done_actions' = done_actions \cup UNION {MappedFlags(i) : i \in Differing}
    /\ Once("set_app_icon", O_NTF_APP_ICON)
    /\ Once("set_category", O_NTF_CATEGORY)
    /\ Once("set_urgency", O_NTF_URGENCY)
    /\ Once("set_progress_bar", O_SEND_PROGRESS)
    /\ rewrite_body' =
           (rewrite_body \/ Differing \cap {O_SEND_SUB_TEXT, O_PERFDATA} # {})
    /\ thumbnail_ctx' =
           IF Differing \cap {O_THUMBNAIL_SIZE, O_THUMBNAIL_SCALING,
                              O_DISABLE_SCALING} # {}
           THEN ZeroCtx ELSE thumbnail_ctx

\* C18 as stated: for any two option sets the diff runs the mapped effects
\* and accumulates the mapped flags for exactly the slots whose values
\* differ, once for each, and for no other slot.
C18_ExactlyDifferingSlots == [][pc = "dispatch" => ExactEffects]_vars

C20_EndsOnShutdownOnly == pc = "exit" => last.path = "shutdown"

\* a step that handles a reply, or resolves a batch
ReplyOrBatchStep ==
    \/ ReplyStep
    \/ pc = "dispatch" /\ pc' = "poll"
    \/ pc = "poll" /\ pc' = "poll" /\ last'.resolved

\* C20: the loop ends on the shutdown event and on a failure of poll() or of
\* one of its descriptors; no reply and no batch ends it, whatever fails in
\* the service, the screenshot command or the construction of the context.
\* The step that ends it resolves nothing of the batch in progress: it shows
\* nothing and requests no screenshot, leaves the accumulated actions and the
\* timer as they are, closes the notification if there is one, and leaves no
\* notification and no thumbnail context behind.
C20_EndsOnShutdownOrPollFailure ==
    [][/\ ReplyOrBatchStep => pc' # "exit"
       /\ (pc # "exit" /\ pc' = "exit") =>
             /\ last'.path \in {"shutdown", "poll"}
             /\ last'.path = "shutdown" => pc = "dispatch"
             /\ ~last'.resolved
             /\ done_actions' = done_actions
             /\ timer_armed' = timer_armed /\ timer_fd' = timer_fd
             /\ calls'.show = 0 /\ calls'.screenshot = 0
             /\ calls'.reinit = 0
             /\ calls'.close = (IF ntf THEN 1 ELSE 0)
             /\ ~ntf' /\ ~ntf_image'
             /\ thumbnail_ctx' = ZeroCtx]_vars

C20_Witness ==
    /\ pc = "exit" /\ last.path = "shutdown"
    /\ done_actions # {} /\ timer_armed
    /\ calls.close = 1 /\ ~ntf /\ thumbnail_ctx = ZeroCtx

(***************************************************************************)
(* Properties of the branches of done(), read from what a batch started    *)
(* from (last) and what it called (calls).                                 *)
(***************************************************************************)
\* C21: a batch that ends with force_open set and the data ready, and holds
\* the A_NTF_RST an "open" message leaves, restarts the timer and refreshes
\* the notification whatever the focus; with A_NTF_UPD and no A_NTF_RST it
\* refreshes whatever the focus and whether or not the timer is armed, and
\* leaves the timer as it was.
C21_ForceOpenShowsWhileFocused ==
    (Resolved /\ force_open /\ DataReady) =>
        /\ A_NTF_RST \in last.actions => (TimerRestarted /\ Refreshed)
        /\ (A_NTF_UPD \in last.actions /\ A_NTF_RST \notin last.actions) =>
              (Refreshed /\ timer_armed = last.timer_armed)

C21_Witness ==
    /\ Resolved /\ force_open /\ DataReady
    /\ op_true(Globals, P_FOCUSED)
    /\ A_NTF_RST \in last.actions
    /\ ~last.timer_armed /\ timer_armed /\ last.ntf /\ calls.show = 1

\* the batch reaches the A_NTF_RST branch of done()
ResetResolved ==
    /\ Resolved /\ Eligible
    /\ A_NTF_RST \in last.actions
    /\ ~(A_NTF_CLOSE \in last.actions /\ ~force_open)

\* the screenshot commands the second step of done() hands over
QueueStep ==
    IF ~ntf_image_enabled THEN 0
    ELSE IF A_FORCED_QUEUE_SHOT \in last.actions THEN 1
    ELSE IF A_QUEUE_SHOT \in last.actions /\ (last.timer_armed \/ force_open)
         THEN 1
    ELSE 0

\* C22: a batch that reaches the A_NTF_RST branch restarts the timer with
\* the expire timeout and refreshes the notification, and the branch hands
\* over a screenshot command of its own exactly when the timer was not armed
\* before and thumbnails are enabled.
C22_ResetRestartsAndRefreshes ==
    ResetResolved =>
        /\ TimerRestarted
        /\ Refreshed
        /\ calls.command - QueueStep =
               IF ~last.timer_armed /\ ntf_image_enabled THEN 1 ELSE 0

C22_Witness ==
    /\ ResetResolved
    /\ ~last.timer_armed /\ ntf_image_enabled
    /\ QueueStep = 0 /\ calls.command = 1 /\ calls.show = 1

\* the batch reaches the test of A_NTF_UPD in done()
UpdateResolved ==
    /\ Resolved /\ Eligible
    /\ A_NTF_UPD \in last.actions /\ A_NTF_RST \notin last.actions
    /\ ~(A_NTF_CLOSE \in last.actions /\ ~force_open)

\* C23: a batch that reaches the test of A_NTF_UPD refreshes the
\* notification exactly when the timer is armed or force_open is set; the
\* batch leaves timer_armed as it was and the timerfd as the expiry, if any,
\* left it; with neither the timer armed nor force_open set it calls nothing
\* and the timer stays off.
C23_UpdateRefreshesOnlyWhenOpen ==
    [][UpdateResolved' =>
          /\ timer_armed' = timer_armed
          /\ timer_fd' = IF last'.expired THEN "off" ELSE timer_fd
          /\ IF timer_armed \/ force_open'
             THEN Refreshed'
             ELSE /\ calls'.show = 0 /\ calls'.update = 0
                  /\ calls'.reinit = 0
                  /\ ~timer_armed' /\ timer_fd' = "off"]_vars

C23_Witness ==
    /\ UpdateResolved
    /\ last.timer_armed /\ ~force_open /\ timer_armed /\ timer_fd = "running"
    /\ last.ntf /\ calls.show = 1 /\ calls.update = 1

\* C24: a batch resolved while the player is not idle and the metadata or
\* the position is unavailable calls neither update nor show, creates no
\* session and does not start the timer, whatever done_actions holds and
\* with force_open set too; while the player is idle A_NTF_RST restarts the
\* timer and refreshes without metadata and position.
C24_DataGate ==
    [][(pc' = "poll" /\ last'.resolved) =>
          /\ ~DataReady' =>
                /\ calls'.show = 0 /\ calls'.update = 0 /\ calls'.reinit = 0
                /\ timer_armed' => timer_armed
                /\ timer_fd' = "running" => (timer_fd = "running"
                                             /\ ~last'.expired)
          /\ (op_true(Globals, P_IDLE_ACTIVE)' /\ (~Focused' \/ force_open')
              /\ A_NTF_RST \in last'.actions
              /\ ~(A_NTF_CLOSE \in last'.actions /\ ~force_open')) =>
                (TimerRestarted' /\ Refreshed')]_vars

C24_Witness ==
    /\ Resolved /\ ~DataReady /\ force_open
    /\ metadata_avail /\ ~op_avail(Globals, P_TIME_POS)
    /\ A_NTF_RST \in last.actions
    /\ ~timer_armed /\ calls.show = 0 /\ last.ntf

\* C25: a batch hands over no screenshot command unless thumbnails are
\* enabled once its A_NTF_CHECK_IMAGE is resolved; with them enabled the
\* second step of done() hands over one for A_FORCED_QUEUE_SHOT, and for
\* A_QUEUE_SHOT without it only if the timer is armed or force_open is set
\* at that step; every other command of the batch is the one of an
\* A_NTF_RST branch that found the timer not armed.
C25_ScreenshotGates ==
    Resolved =>
        /\ ~ntf_image_enabled => calls.command = 0
        /\ calls.command =
               QueueStep + (IF ResetResolved /\ ~last.timer_armed
                               /\ ntf_image_enabled
                            THEN 1 ELSE 0)

C25_Witness ==
    /\ Resolved /\ ~ResetResolved
    /\ A_NTF_CHECK_IMAGE \in last.actions
    /\ ~last.image_enabled /\ ntf_image_enabled
    /\ A_FORCED_QUEUE_SHOT \in last.actions
    /\ ~last.timer_armed /\ ~force_open /\ calls.command = 1

\* C26: a batch whose A_NTF_CHECK_IMAGE enables the thumbnails, and that
\* holds neither A_QUEUE_SHOT nor A_FORCED_QUEUE_SHOT and takes no A_NTF_RST
\* branch with the timer not armed, hands over no screenshot command.
C26_EnablingRequestsNothing ==
    (/\ Resolved
     /\ A_NTF_CHECK_IMAGE \in last.actions
     /\ ~last.image_enabled /\ ntf_image_enabled
     /\ last.actions \cap {A_QUEUE_SHOT, A_FORCED_QUEUE_SHOT} = {}
     /\ ~(ResetResolved /\ ~last.timer_armed)) =>
        (calls.command = 0 /\ calls.screenshot = 0)

C26_Witness ==
    /\ Resolved
    /\ A_NTF_CHECK_IMAGE \in last.actions
    /\ ~last.image_enabled /\ ntf_image_enabled
    /\ last.actions \cap {A_QUEUE_SHOT, A_FORCED_QUEUE_SHOT} = {}
    /\ ResetResolved /\ last.timer_armed
    /\ calls.command = 0 /\ calls.show = 1


ThumbnailOpts == {O_THUMBNAIL_SIZE, O_THUMBNAIL_SCALING, O_DISABLE_SCALING}

\* the context, if it holds an engine or a buffer, is the one the options in
\* force give for its source size
CtxFromCurrentOpts ==
    LET c == thumbnail_ctx
        scaling == ~opts[O_DISABLE_SCALING]
        size == opts[O_THUMBNAIL_SIZE]
    IN  (c.thumbnail \/ c.sws) =>
           /\ c.sws = scaling
           /\ c.sws_flags = (IF scaling THEN opts[O_THUMBNAIL_SCALING] ELSE 0)
           /\ c.dst_w = (IF scaling
                         THEN MAX(1, ScaledDim(c.src_w, c.src_w, c.src_h, size))
                         ELSE c.src_w)
           /\ c.dst_h = (IF scaling
                         THEN MAX(1, ScaledDim(c.src_h, c.src_w, c.src_h, size))
                         ELSE c.src_h)

\* C27: a change of the thumbnail size, the scaling algorithm or the scaling
\* switch tears the thumbnail context down in the handler, while the batch is
\* still open, and accumulates A_QUEUE_SHOT; and a context that holds an
\* engine or a buffer was built from the options in force: its engine is for
\* the current algorithm and its destination size is the one the current
\* size and scaling switch give for its source size.
C27_OptionChangeTearsDown ==
    [][/\ (\E i \in ThumbnailOpts : opts'[i] # opts[i]) =>
             /\ thumbnail_ctx' = ZeroCtx
             /\ A_QUEUE_SHOT \in done_actions'
             /\ pc = "dispatch" /\ pc' = "dispatch"
       /\ CtxFromCurrentOpts']_vars

\* a frame was converted in a batch after the algorithm and the size of the
\* configuration file had changed
C27_Witness ==
    /\ pc = "dispatch"
    /\ A_QUEUE_SHOT \in done_actions
    /\ reply.seen /\ reply.built
    /\ thumbnail_ctx.thumbnail
    /\ thumbnail_ctx.sws_flags = SWS_BILINEAR
    /\ thumbnail_ctx.dst_w = 10


\* the options whose active value the step changes
ActiveDiffering == {i \in opts_key : opts[i] # opts'[i]}

\* C28: every step leaves the active option set equal to the base snapshot
\* layered with the current script-opts overrides; a script-opts change
\* leaves the base snapshot as it was, so that an option whose override went
\* away is back at its base value, and accumulates the flags of exactly the
\* options whose active value differs from the one before the event.
C28_ActiveIsBasePlusOverrides ==
    [][/\ opts' = opts_from_runtime(opts_base', script_opts')
       /\ script_opts' # script_opts =>
             /\ opts_base' = opts_base
             /\ \A i \in opts_key \ DOMAIN script_opts'.list :
                   opts'[i] = opts_base[i]
             /\ done_actions' =
                   done_actions
                   \cup UNION {MappedFlags(i) : i \in ActiveDiffering}]_vars

\* the overrides went away in a batch in which a frame had been converted
\* under the size override, and the size is back at the value of the
\* configuration file
C28_Witness ==
    /\ pc = "dispatch"
    /\ script_opts = NodeMap(<<>>)
    /\ reply.seen /\ reply.opts[O_THUMBNAIL_SIZE] = 32
    /\ opts_base[O_THUMBNAIL_SIZE] = 10
    /\ opts[O_THUMBNAIL_SIZE] = 10
    /\ A_QUEUE_SHOT \in done_actions


\* the value option k holds once set_opt has accepted value
Accepted(k, value) == set_opt(opts_defaults, k, value)[k]

\* the script-opts map changed, and supplies overrides
OverridesStep == script_opts' # script_opts

Overrides == script_opts'.list

BadOverrides == {k \in DOMAIN Overrides : bad_value(k, Overrides[k].u)}

\* a "reload-config" read a configuration file with a refused line
BadFileStep == last'.file # last.file /\ last'.file # NoFile

BadLines == {k \in DOMAIN last'.file : bad_value(k, last'.file[k])}

\* C29 as stated: an override whose value fails number or boolean parsing,
\* or is out of range, leaves its option at the value it had before the
\* event and triggers no flag for it, and the other overrides are applied.
C29_BadValueKeepsPrevious ==
    [][OverridesStep =>
          /\ \A k \in BadOverrides : opts'[k] = opts[k]
          /\ \A k \in DOMAIN Overrides \ BadOverrides :
                opts'[k] = Accepted(k, Overrides[k].u)
          /\ done_actions' =
                done_actions
                \cup UNION {MappedFlags(i) :
                               i \in ActiveDiffering \ BadOverrides}]_vars

\* C29: a refused value leaves its option at the value of the layer beneath
\* its source, the base snapshot for a script-opts override and the default
\* for a line of the configuration file; the other options of the source
\* are applied, and the flags accumulated are those of the options whose
\* active value the event changed, the refused one among them when the
\* layer beneath differs from the value that was active.
C29_BadValueFallsBack ==
    [][/\ OverridesStep =>
             /\ \A k \in BadOverrides : opts'[k] = opts_base[k]
             /\ \A k \in DOMAIN Overrides \ BadOverrides :
                   opts'[k] = Accepted(k, Overrides[k].u)
             /\ done_actions' =
                   done_actions
                   \cup UNION {MappedFlags(i) : i \in ActiveDiffering}
       /\ BadFileStep =>
             /\ \A k \in BadLines : opts_base'[k] = opts_defaults[k]
             /\ \A k \in DOMAIN last'.file \ BadLines :
                   opts_base'[k] = Accepted(k, last'.file[k])
             /\ done_actions' =
                   done_actions
                   \cup UNION {MappedFlags(i) : i \in ActiveDiffering}]_vars

\* a frame was converted under the size override 32; the override now in
\* force has a size out of range next to an accepted algorithm, and the size
\* is the 10 of the configuration file
C29_Witness ==
    /\ pc = "dispatch"
    /\ O_THUMBNAIL_SIZE \in DOMAIN script_opts.list
    /\ bad_value(O_THUMBNAIL_SIZE, script_opts.list[O_THUMBNAIL_SIZE].u)
    /\ reply.seen /\ reply.opts[O_THUMBNAIL_SIZE] = 32
    /\ opts_base[O_THUMBNAIL_SIZE] = 10
    /\ opts[O_THUMBNAIL_SIZE] = 10
    /\ opts[O_THUMBNAIL_SCALING] = SWS_BILINEAR
    /\ thumbnail_ctx = ZeroCtx
    /\ A_QUEUE_SHOT \in done_actions


\* a batch ended in a refresh of an existing notification object
RefreshStep == pc = "dispatch" /\ pc' = "poll" /\ last'.ntf /\ calls'.show = 1

Count(b) == IF b THEN 1 ELSE 0

\* the texts written and sent are those marked dirty before the refresh
WritesWhatIsDirty ==
    /\ calls'.write_summary = Count(rewrite_summary)
    /\ calls'.write_body = Count(rewrite_body)
    /\ calls'.update = Count(rewrite_summary \/ rewrite_body)

\* C30 as stated: a refresh recomputes the summary only if it is dirty and
\* the body only if it is dirty, calls the service's update at most once and
\* only if one of them was dirty, and leaves both marks cleared, for every
\* option setting.
C30_RefreshClearsMarks ==
    [][RefreshStep =>
          /\ WritesWhatIsDirty
          /\ ~rewrite_summary' /\ ~rewrite_body']_vars

\* C30: a refresh of an existing notification object recomputes the summary
\* only if it is dirty and the body only if it is dirty, calls the service's
\* update at most once and only if one of them was dirty, and leaves the
\* summary mark cleared; it leaves the body mark cleared unless perfdata is
\* on, and then it leaves the body marked dirty.
C30_RefreshClearsMarksButPerfdata ==
    [][RefreshStep =>
          /\ WritesWhatIsDirty
          /\ ~rewrite_summary'
          /\ rewrite_body' = opts[O_PERFDATA]]_vars

\* a refresh with perfdata on wrote the body alone and left it dirty
C30_Witness ==
    /\ pc = "poll" /\ last.resolved /\ last.ntf
    /\ calls.show = 1 /\ calls.update = 1
    /\ calls.write_summary = 0 /\ calls.write_body = 1
    /\ opts[O_PERFDATA]
    /\ ~rewrite_summary /\ rewrite_body


\* the properties of observed_props[] that set action_if_true
TriggerProps == {p \in DOMAIN observed_props : observed_props[p].action_if_true}

\* C31: a change of the focus signal or of eof-reached accumulates the
\* property's action flags when the new value is true, and accumulates
\* nothing when it is false or unavailable; a batch that holds nothing but
\* such a change, and in which the timer does not expire, calls the service
\* for nothing and leaves the timer alone.
C31_TriggersOnlyWhenTrue ==
    [][/\ \A p \in TriggerProps :
             props'[p] # props[p] =>
                done_actions' =
                    done_actions
                    \cup (IF node_true(props'[p])
                          THEN observed_props[p].action ELSE {})
       /\ (/\ pc = "dispatch" /\ pc' = "poll"
           /\ done_actions = {} /\ ~last'.expired) =>
             /\ calls' = NoCalls
             /\ timer_armed' = timer_armed /\ timer_fd' = timer_fd]_vars

\* the notification is open, the focus signal has gone from true to
\* unavailable and eof-reached to false, and the batch holds no flag
C31_Witness ==
    /\ pc = "dispatch"
    /\ ntf /\ timer_armed /\ ~force_open
    /\ props[P_FOCUSED] = Unavailable
    /\ props[P_EOF_REACHED] = Flag(0)
    /\ done_actions = {}


\* the image support is off, by the option or by ntf_check_image
ThumbnailsDisabled == ~opts[O_SEND_THUMBNAIL] \/ ~ntf_image_enabled

\* C32: when a batch has been resolved with send_thumbnail off or the image
\* support switched off, the thumbnail context holds no buffer, no scaling
\* engine and no image handle; and the reply to a screenshot command that
\* is handled while the image support is off builds no context.
C32_DisabledMeansTornDown ==
    [][/\ (pc' = "poll" /\ ThumbnailsDisabled') =>
             /\ ~ntf_image_enabled'
             /\ thumbnail_ctx' = ZeroCtx
       /\ (ReplyStep /\ ~ntf_image_enabled) =>
             /\ thumbnail_ctx' = ZeroCtx
             /\ calls'.ctx_new = calls.ctx_new]_vars

\* a frame arrived after a batch had switched the image off and torn down
\* the context built before, and left the context torn down
C32_Witness ==
    /\ pc = "dispatch"
    /\ ~ntf_image_enabled
    /\ reply.seen /\ ~Malformed(reply.result)
    /\ thumbnail_ctx = ZeroCtx
    /\ calls.ctx_new = 0
    /\ ~opts[O_SEND_THUMBNAIL]


\* C33: while a notification object exists it carries an image exactly when
\* the thumbnail context holds an image handle, the handle of the context
\* wraps a buffer the context still holds, and without a notification
\* object nothing carries an image.
C33_ImageIsCurrentHandle ==
    /\ ntf => (ntf_image <=> thumbnail_ctx.pixbuf)
    /\ thumbnail_ctx.pixbuf => thumbnail_ctx.thumbnail
    /\ ~ntf => ~ntf_image

\* a batch re-created the session while the context held an image handle,
\* and the new notification object carries the image
C33_Witness ==
    /\ pc = "poll" /\ last.resolved
    /\ calls.show_failed = 1 /\ calls.reinit = 1
    /\ ntf /\ ntf_image
    /\ thumbnail_ctx.pixbuf

\* a show the notification service accepted in the batch just resolved
Shown == calls.show > calls.show_failed

\* C34: every show call is made with the debounce timer armed or
\* force-open active, and, close calls succeeding, a notification the
\* program left open at a batch boundary has the timer armed or force-open
\* active
C34_OpenImpliesArmedOrForced ==
    /\ calls.show > 0 => timer_armed \/ force_open
    /\ pc = "poll" /\ last.open => timer_armed \/ force_open

C34_Witness ==
    /\ pc = "poll" /\ last.resolved
    /\ last.open /\ ~Shown
    /\ force_open /\ ~timer_armed

\* C35 as stated: a batch whose "close" message was followed by an "open"
\* message resolves to the RESET
C35_LastCommandDecides ==
    (pc = "poll" /\ last.resolved) =>
        /\ last.order = "open-close" =>
              ~force_open /\ last.path = "close" /\ ~timer_armed
        /\ last.order = "close-open" => force_open /\ last.path = "rst"

\* C35: of an "open" and a "close" message handled in one batch the last
\* decides: after open-then-close the batch takes the close path with
\* force-open inactive; after close-then-open force-open is active, the
\* CLOSE is ignored, and the RESET is performed if the data is ready
C35_LastCommandDecidesWhenReady ==
    (pc = "poll" /\ last.resolved) =>
        /\ last.order = "open-close" =>
              /\ ~force_open /\ last.path = "close" /\ ~timer_armed
              /\ calls.show = 0
              /\ last.ntf => calls.close = 1
        /\ last.order = "close-open" =>
              /\ force_open /\ last.path # "close"
              /\ last.path = (IF DataReady THEN "rst" ELSE "ineligible")
              /\ DataReady => timer_armed

C35_Witness ==
    /\ pc = "poll" /\ last.resolved
    /\ last.order = "close-open"
    /\ last.path = "rst" /\ A_NTF_CLOSE \in last.actions
    /\ calls.show = 1 /\ calls.close = 0 /\ last.open

\* the armed flag is set and the timerfd holds no expiry
ArmedForever == timer_armed /\ timer_fd = "off"

\* a batch that held UPDATE and neither RESET nor CLOSE, resolved under
\* expire_timeout = 0 with a notification object, the flag set and no expiry
\* to come
UpdateWhileForever ==
    /\ Resolved /\ ~last.expired
    /\ opts[O_EXPIRE_TIMEOUT] = 0 /\ last.ntf
    /\ last.timer_armed /\ timer_fd = "off"
    /\ A_NTF_UPD \in last.actions
    /\ last.actions \cap {A_NTF_RST, A_NTF_CLOSE} = {}

\* C36 as stated: every UPDATE batch refreshes the open notification as long
\* as no CLOSE has come
C36_EveryUpdateRefreshes ==
    (UpdateWhileForever /\ last.open) => last.path = "upd"

\* C36: with expire_timeout = 0 a resolved RESET sets the armed flag and
\* leaves the timerfd without an expiry; no expiry is processed from there,
\* the flag is cleared only by the close path on a CLOSE that did not come
\* from the timer, and until then the UPDATE batches that pass the focus
\* and data gates refresh the notification
C36_ZeroTimeoutNeverExpires ==
    /\ [](/\ (Resolved /\ last.path = "rst" /\ opts[O_EXPIRE_TIMEOUT] = 0)
                => ArmedForever
          /\ (UpdateWhileForever /\ Eligible) =>
                /\ last.path = "upd" /\ ArmedForever
                /\ calls.show = 1)
    /\ [][ArmedForever =>
            /\ ~(last'.resolved /\ last'.expired)
            /\ ~timer_armed' =>
                  /\ last'.resolved /\ last'.path = "close"
                  /\ A_NTF_CLOSE \in last'.actions /\ ~force_open']_vars

C36_Witness ==
    /\ UpdateWhileForever /\ Eligible
    /\ last.open /\ calls.show = 1 /\ calls.show_failed = 0
    /\ ~force_open

\* C37: each input of "player is considered focused" accumulates CLOSE in
\* the step in which it turns the player focused, and so, close calls
\* succeeding, no batch ends with the player focused, force-open inactive
\* and the notification open
C37_BecomingFocusedCloses ==
    /\ [][(pc = "dispatch" /\ ~Focused /\ Focused')
             => A_NTF_CLOSE \in done_actions']_vars
    /\ []((Resolved /\ Focused /\ ~force_open) => ~last.open)

\* C38: once the engine sends nothing of its own, the batches that end in
\* a re-creation of the session come to an end, whatever the service
\* answers to show
C38_QuiescentAfterReinit ==
    <>[]~(quiet /\ Resolved /\ calls.show_failed > 0 /\ calls.reobserve > 0)

\* the whole percent nearest to a position given in tenths, 0 for a
\* position that is unavailable or 0.0
WholePercent(node) ==
    IF node.format = NONE \/ node.u = 0 THEN 0
    ELSE CHOOSE n \in 0 .. 100 : 10 * n - 5 <= node.u /\ node.u < 10 * n + 5

\* C39: a change of percent-pos stores the position rounded to a whole
\* percent (0 when unavailable or not normal), accumulates UPDATE and marks
\* the body dirty exactly when that differs from the value stored before,
\* and accumulates QUEUE_SHOT unless the video track is a still image
C39_ProgressUpdatesOnWholePercent ==
    [][(pc = "dispatch" /\ props'[P_PERCENT_POS] # props[P_PERCENT_POS]) =>
          LET new == WholePercent(props'[P_PERCENT_POS])
              moved == new # percent_pos_rounded
              still == op_true(Globals, P_CURRENT_TRACKS__VIDEO__IMAGE)
          IN  /\ percent_pos_rounded' = new
              /\ A_NTF_UPD \in done_actions'
                    <=> (A_NTF_UPD \in done_actions \/ moved)
              /\ rewrite_body' <=> (rewrite_body \/ moved)
              /\ A_QUEUE_SHOT \in done_actions'
                    <=> (A_QUEUE_SHOT \in done_actions \/ ~still)
              /\ done_actions' \ {A_NTF_UPD, A_QUEUE_SHOT}
                    = done_actions \ {A_NTF_UPD, A_QUEUE_SHOT}
              /\ rewrite_summary' = rewrite_summary]_vars

C39_Witness ==
    /\ pc = "dispatch"
    /\ props[P_PERCENT_POS] = Double(14) /\ percent_pos_rounded = 1
    /\ ~op_true(Globals, P_CURRENT_TRACKS__VIDEO__IMAGE)
    /\ done_actions = {A_QUEUE_SHOT}
    /\ ~rewrite_body

\* the saved properties write_body reads: the end-of-playlist message, and
\* the condition and the value of the playback time
BodyReads ==
    {P_EOF_REACHED, P_IDLE_ACTIVE, P_TIME_POS,
     P_USER_DATA__DETECT_IMAGE__DETECTED}

\* C40: a change of a property or an option that write_body reads marks
\* the body dirty, and a change of what write_summary reads marks the
\* summary dirty; the image-detected property is among the former
C40_ReadByTextMarksDirty ==
    [][/\ \A p \in BodyReads : props'[p] # props[p] => rewrite_body'
       /\ percent_pos_rounded' # percent_pos_rounded => rewrite_body'
       /\ opts'[O_PERFDATA] # opts[O_PERFDATA] => rewrite_body'
       /\ metadata_avail' # metadata_avail
             => rewrite_summary' /\ rewrite_body']_vars

====
